---- MODULE Spec2Model ----
(***************************************************************************)
(* approval-guard: reconstruction of the current ERC-20 allowance per      *)
(* (token, spender) pair from delivered Approval logs, risk scoring of     *)
(* the reduced approvals, and ordering of revocation recommendations.      *)
(*                                                                         *)
(* Addresses are strings; two spellings of one address differ in letter    *)
(* case only.  A JavaScript Map is a sequence of [key, val] entries in     *)
(* insertion order; a template-string key `${a}-${b}` is the pair <<a,b>>. *)
(* uint256 amounts are kept on a reduced scale that preserves the order of *)
(* the thresholds the code compares them with.                             *)
(***************************************************************************)
EXTENDS Integers, Sequences, FiniteSets, TLC

VARIABLES
    op,           \* the operation that ran last ("none" before the first)
    logs,         \* the raw logs getLogs delivered to that operation
    options,      \* the options of that call
    approvalMap,  \* values of the operation's Map when its fold ended
    result,       \* the array the operation returned
    now,          \* Date.now(), in days
    call,         \* the last scoring call: its function, arguments and result
    again,        \* the result of calling it once more with the same arguments
    prioOp,       \* the prioritizer operation that ran last ("none" before)
    prioApprovals, \* the approvals handed to the prioritizer
    riskScores,   \* the Map of risk scores handed to the prioritizer
    prioritized,  \* the list the prioritizer returned
    prioAgain,    \* the list a second run on the same arguments returned
    walletOp,        \* the wallet-level operation that ran last ("none" before)
    walletApprovals, \* the approvals of the wallet handed to it
    walletResult,    \* what the operation returned
    labelled,        \* a score and the level each score-to-level mapping gave it
    rawLog,          \* the raw log record handed to the normalizers
    normalized,      \* what each normalizer made of it
    batchInput,      \* the items handed to processBatch and where the processor rejects
    batchRun,        \* the options of the processBatch call, what it did and returned
    retry,           \* the retryWithBackoff call: its position, locals and history
    approvalCache,   \* scanner.ts: the module's Map from cache key to CacheEntry
    clock,           \* Date.now(), in milliseconds since the module was loaded
    cacheCalls,      \* the scanApprovals and clearApprovalCache calls made so far
    metadataCache,   \* TokenMetadataService: the instance's Map from lowercased address to metadata
    tokenInput,      \* the token addresses of the next call and what the chain answers for each
    metaCall,        \* the last metadata call and what it resolved with
    store,           \* ApprovalCache: the instance's Map from key to CacheEntry
    storeOptions,    \* the CacheOptions the instance was constructed with
    storeNow,        \* Date.now() as the ApprovalCache sees it, in milliseconds
    lastSet,         \* for each key, the approvals and block number of its most recent set
    storeOp,         \* the last ApprovalCache operation, the Map before it and what it returned
    givenScores,     \* the RiskScore list handed to getAggregateRisk
    aggregate,       \* what getAggregateRisk returned, once called
    scoredApprovals, \* the approvals handed to scoreMultiple and generateRecommendations
    scoreMap,        \* the Map scoreMultiple returned, once called
    recommended,     \* the approvals generateRecommendations recommended on, once called
    rangeQuery,      \* the fromBlock and toBlock fetchApprovalEvents resolved, once called
    rangeStart,      \* start, the loop variable of fetchApprovalEvents
    rangesQueried,   \* the fromBlock and toBlock of each getLogs call so far
    rangePc          \* where fetchApprovalEvents stands

reduceVars == <<op, logs, options, approvalMap, result>>
scoreVars == <<now, call, again>>
prioVars == <<prioOp, prioApprovals, riskScores, prioritized, prioAgain>>
walletVars == <<walletOp, walletApprovals, walletResult, labelled>>
normVars == <<rawLog, normalized>>
batchVars == <<batchInput, batchRun>>
retryVars == <<retry>>
cacheVars == <<approvalCache, clock, cacheCalls>>
metaVars == <<metadataCache, tokenInput, metaCall>>
storeVars == <<store, storeOptions, storeNow, lastSet, storeOp>>
aggregateVars == <<givenScores, aggregate>>
pipeVars == <<scoredApprovals, scoreMap, recommended>>
chunkVars == <<rangeQuery, rangeStart, rangesQueried, rangePc>>

vars == <<reduceVars, scoreVars, prioVars, walletVars, normVars, batchVars, retryVars, cacheVars, metaVars, storeVars, aggregateVars, pipeVars, chunkVars>>

\* What the operations of one group leave alone.
nonReduceVars == <<scoreVars, prioVars, walletVars, normVars, batchVars, retryVars, cacheVars, metaVars, storeVars, aggregateVars, pipeVars, chunkVars>>
nonScoreVars == <<reduceVars, prioVars, walletVars, normVars, batchVars, retryVars, cacheVars, metaVars, storeVars, aggregateVars, pipeVars, chunkVars>>
nonPrioVars == <<reduceVars, scoreVars, walletVars, normVars, batchVars, retryVars, cacheVars, metaVars, storeVars, aggregateVars, pipeVars, chunkVars>>
nonWalletVars == <<reduceVars, scoreVars, prioVars, normVars, batchVars, retryVars, cacheVars, metaVars, storeVars, aggregateVars, pipeVars, chunkVars>>
nonNormVars == <<reduceVars, scoreVars, prioVars, walletVars, batchVars, retryVars, cacheVars, metaVars, storeVars, aggregateVars, pipeVars, chunkVars>>
nonRetryVars == <<reduceVars, scoreVars, prioVars, walletVars, normVars, batchVars, cacheVars, metaVars, storeVars, aggregateVars, pipeVars, chunkVars>>
nonBatchVars == <<reduceVars, scoreVars, prioVars, walletVars, normVars, retryVars, cacheVars, metaVars, storeVars, aggregateVars, pipeVars, chunkVars>>
nonCacheVars == <<reduceVars, scoreVars, prioVars, walletVars, normVars, batchVars, retryVars, metaVars, storeVars, aggregateVars, pipeVars, chunkVars>>
nonMetaVars == <<reduceVars, scoreVars, prioVars, walletVars, normVars, batchVars, retryVars, cacheVars, storeVars, aggregateVars, pipeVars, chunkVars>>
nonStoreVars == <<reduceVars, scoreVars, prioVars, walletVars, normVars, batchVars, retryVars, cacheVars, metaVars, aggregateVars, pipeVars, chunkVars>>
nonAggregateVars == <<reduceVars, scoreVars, prioVars, walletVars, normVars, batchVars, retryVars, cacheVars, metaVars, storeVars, pipeVars, chunkVars>>
nonPipeVars == <<reduceVars, scoreVars, prioVars, walletVars, normVars, batchVars, retryVars, cacheVars, metaVars, storeVars, aggregateVars, chunkVars>>
nonChunkVars == <<reduceVars, scoreVars, prioVars, walletVars, normVars, batchVars, retryVars, cacheVars, metaVars, storeVars, aggregateVars, pipeVars>>

\* The options of an operation that has no include-zero flag, or leaves it unset.
DefaultMode == [includeZero |-> FALSE]

\* An optional value (T | null | undefined) is the empty sequence or <<v>>.
None == <<>>
Some(v) == <<v>>

----------------------------------------------------------------------------
(* Bounds of the exploration *)

MaxLogs == 3
MaxBlock == 3
MaxTicks == 2
MaxApprovals == 3
MaxWallet == 4
MaxScore == 100
MaxItems == 4
MaxBatchSize == 3
MaxRetries == 2
MaxCalls == 3
MaxInFlight == 1
MaxTokens == 2
MaxSize == 2
MaxMinutes == 6
NowStart == 400

----------------------------------------------------------------------------
(* Addresses and raw logs *)

\* Spellings of token addresses: 0xaa and 0xAA are one address.
TokenSpellings == {"0xaa", "0xAA", "0xbb"}
SpenderSpellings == {"0xcc"}
Owner == "0x11"
\* uint256 amounts on the reduced scale: MAX_UINT256 is 2^256 - 1.
MAX_UINT256 == 1000
Amounts == {0, 50, 100}
BlockNumbers == 1..MaxBlock

toLowerCase(s) ==
    CASE s = "0xAA" -> "0xaa"
      [] s = "0xBB" -> "0xbb"
      [] s = "0xCC" -> "0xcc"
      [] OTHER -> s

normalizeAddress(s) == toLowerCase(s)

\* The transaction of an on-chain event; one event per (block, amount) here,
\* so the same event may be delivered under two spellings of its token.
TxHash(b, v) == (b * 1000) + v

ApprovalTopic == "Approval"

\* A raw log: topics = <<event signature, owner, spender>>, data = the amount.
RawLog(a, s, v, b) ==
    [address |-> a, topics |-> <<ApprovalTopic, Owner, s>>, data |-> Some(v),
     blockNumber |-> Some(b), transactionHash |-> Some(TxHash(b, v))]

RawLogs ==
    { RawLog(a, s, v, b) :
         a \in TokenSpellings, s \in SpenderSpellings,
         v \in Amounts, b \in BlockNumbers }

----------------------------------------------------------------------------
(* JavaScript Map and Array helpers *)

MapHas(m, k) == \E i \in 1..Len(m) : m[i].key = k

MapGet(m, k) ==
    IF MapHas(m, k)
    THEN Some(m[CHOOSE i \in 1..Len(m) : m[i].key = k].val)
    ELSE None

MapSet(m, k, v) ==
    IF MapHas(m, k)
    THEN [i \in 1..Len(m) |-> IF m[i].key = k THEN [key |-> k, val |-> v] ELSE m[i]]
    ELSE Append(m, [key |-> k, val |-> v])

MapValues(m) == [i \in 1..Len(m) |-> m[i].val]

\* Array.prototype.filter is SelectSeq.

----------------------------------------------------------------------------
(* scanner.ts: parseApprovalLog, deduplicateApprovals, scanApprovals *)

\* log.topics[i] of the code is topics[i + 1] here (sequences start at 1).
parseApprovalLog(log) ==
    IF log.data = None               \* BigInt(log.data) throws
    THEN None
    ELSE IF Len(log.topics) < 3      \* !owner || !spender
    THEN None
    ELSE Some([tokenAddress |-> log.address,
               owner |-> log.topics[2],
               spender |-> log.topics[3],
               value |-> log.data[1],
               blockNumber |-> IF log.blockNumber = None THEN 0
                               ELSE log.blockNumber[1],
               transactionHash |-> IF log.transactionHash = None THEN 0
                                   ELSE log.transactionHash[1]])

RECURSIVE parseAll(_)
parseAll(ls) ==
    IF ls = <<>> THEN <<>>
    ELSE LET rest == parseAll(SubSeq(ls, 1, Len(ls) - 1))
             a == parseApprovalLog(ls[Len(ls)])
         IN IF a = None THEN rest ELSE Append(rest, a[1])

\* The comparator of the sort: Number(a.blockNumber - b.blockNumber).
compareBlocks(a, b) == a.blockNumber - b.blockNumber

\* Array.prototype.sort is stable: e goes behind every element that does not
\* compare greater than it.
insertSorted(s, e) ==
    LET n == Cardinality({ i \in 1..Len(s) : compareBlocks(s[i], e) <= 0 })
    IN SubSeq(s, 1, n) \o <<e>> \o SubSeq(s, n + 1, Len(s))

RECURSIVE sortByBlock(_)
sortByBlock(s) ==
    IF s = <<>> THEN <<>>
    ELSE insertSorted(sortByBlock(SubSeq(s, 1, Len(s) - 1)), s[Len(s)])

dedupKey(approval) ==
    <<toLowerCase(approval.tokenAddress), toLowerCase(approval.spender)>>

RECURSIVE dedupFold(_)
dedupFold(sorted) ==
    IF sorted = <<>> THEN <<>>
    ELSE LET approval == sorted[Len(sorted)]
         IN MapSet(dedupFold(SubSeq(sorted, 1, Len(sorted) - 1)),
                   dedupKey(approval), approval)

deduplicateApprovals(approvals) == MapValues(dedupFold(sortByBlock(approvals)))

isActive(a) == a.value > 0

\* The transport appends one more log to what getLogs will return: pages may
\* overlap, repeat and arrive out of block order.
DeliverLog(l) ==
    /\ op = "none"
    /\ Len(logs) < MaxLogs
    /\ logs' = Append(logs, l)
    /\ UNCHANGED <<op, options, approvalMap, result>>
    /\ UNCHANGED nonReduceVars

\* The caller drops what the last operation returned and starts a new query.
NewQuery ==
    /\ op # "none"
    /\ op' = "none"
    /\ logs' = <<>>
    /\ options' = DefaultMode
    /\ approvalMap' = <<>>
    /\ result' = <<>>
    /\ UNCHANGED nonReduceVars

scanApprovals ==
    /\ op = "none"
    /\ op' = "scanApprovals"
    /\ options' = DefaultMode
    /\ approvalMap' = deduplicateApprovals(parseAll(logs))
    /\ result' = SelectSeq(approvalMap', isActive)
    /\ UNCHANGED <<logs, nonReduceVars>>

----------------------------------------------------------------------------
(* services/index.ts: ApprovalFetcher.parseApprovalLogs *)

RECURSIVE parseApprovalLogsFold(_)
parseApprovalLogsFold(ls) ==
    IF ls = <<>> THEN <<>>
    ELSE LET m == parseApprovalLogsFold(SubSeq(ls, 1, Len(ls) - 1))
             log == ls[Len(ls)]
         IN IF \/ Len(log.topics) < 3
               \/ log.blockNumber = None
               \/ log.blockNumber = Some(0)      \* !log.blockNumber: 0n is falsy
            THEN m
            ELSE LET spenderAddress == log.topics[3]
                     key == <<toLowerCase(log.address), toLowerCase(spenderAddress)>>
                     existing == MapGet(m, key)
                 IN IF existing = None
                       \/ log.blockNumber[1] > existing[1].blockNumber
                    THEN MapSet(m, key,
                           [tokenAddress |-> log.address,
                            spender |-> spenderAddress,
                            blockNumber |-> log.blockNumber[1],
                            transactionHash |->
                                IF log.transactionHash = None THEN 0
                                ELSE log.transactionHash[1]])
                    ELSE m

parseApprovalLogs ==
    /\ op = "none"
    /\ op' = "parseApprovalLogs"
    /\ options' = DefaultMode
    /\ approvalMap' = MapValues(parseApprovalLogsFold(logs))
    /\ result' = approvalMap'
    /\ UNCHANGED <<logs, nonReduceVars>>

----------------------------------------------------------------------------
(* ApprovalScanner.fetchApprovals *)

\* bigint.toString(): the decimal digits, most significant first.
RECURSIVE bigintToString(_)
bigintToString(n) ==
    IF n < 10 THEN <<n>> ELSE Append(bigintToString(n \div 10), n % 10)

\* BigInt(string) of a decimal string.
RECURSIVE BigInt(_)
BigInt(str) ==
    IF Len(str) = 0 THEN 0
    ELSE (10 * BigInt(SubSeq(str, 1, Len(str) - 1))) + str[Len(str)]

\* The decoded args of a log fetched with the Approval event filter.
logArgs(log) == [owner |-> log.topics[2], spender |-> log.topics[3],
                 value |-> log.data[1]]

RECURSIVE fetchApprovalsFold(_)
fetchApprovalsFold(ls) ==
    IF ls = <<>> THEN <<>>
    ELSE LET m == fetchApprovalsFold(SubSeq(ls, 1, Len(ls) - 1))
             log == ls[Len(ls)]
             spender == logArgs(log).spender
             value == logArgs(log).value
             tokenAddress == log.address
             key == <<tokenAddress, spender>>
             existing == MapGet(m, key)
         IN IF existing = None \/ log.blockNumber[1] > existing[1].blockNumber
            THEN MapSet(m, key,
                   [tokenAddress |-> normalizeAddress(tokenAddress),
                    spenderAddress |-> normalizeAddress(spender),
                    ownerAddress |-> Owner,
                    allowance |-> bigintToString(value),
                    isUnlimited |-> (value = MAX_UINT256),
                    blockNumber |-> log.blockNumber[1],
                    transactionHash |-> log.transactionHash[1]])
            ELSE m

hasAllowance(approval) == BigInt(approval.allowance) > 0

fetchApprovals ==
    /\ op = "none"
    /\ op' = "fetchApprovals"
    /\ options' = DefaultMode
    /\ approvalMap' = MapValues(fetchApprovalsFold(logs))
    /\ result' = SelectSeq(approvalMap', hasAllowance)
    /\ UNCHANGED <<logs, nonReduceVars>>

----------------------------------------------------------------------------
(* ApprovalService.getApprovals and ApprovalService.getApprovalsForWallet *)

reducerKey(log) == <<toLowerCase(log.address), toLowerCase(log.topics[3])>>

\* ApprovalFetcher.fetchApprovals of ./approval-fetcher: the reducer of the
\* specification, section 4.2 (group by normalized key, greatest block wins,
\* the later log wins a tie, zero allowances kept).
RECURSIVE ApprovalFetcher_fetchApprovalsFold(_)
ApprovalFetcher_fetchApprovalsFold(ls) ==
    IF ls = <<>> THEN <<>>
    ELSE LET m == ApprovalFetcher_fetchApprovalsFold(SubSeq(ls, 1, Len(ls) - 1))
             log == ls[Len(ls)]
             existing == MapGet(m, reducerKey(log))
         IN IF existing = None \/ log.blockNumber[1] >= existing[1].blockNumber
            THEN MapSet(m, reducerKey(log),
                   [tokenAddress |-> toLowerCase(log.address),
                    spender |-> toLowerCase(log.topics[3]),
                    allowance |-> bigintToString(log.data[1]),
                    blockNumber |-> log.blockNumber[1],
                    transactionHash |-> log.transactionHash[1]])
            ELSE m

ApprovalFetcher_fetchApprovals(ls) == MapValues(ApprovalFetcher_fetchApprovalsFold(ls))

getApprovals(includeZeroAllowances) ==
    /\ op = "none"
    /\ op' = "getApprovals"
    /\ options' = [includeZero |-> includeZeroAllowances]
    /\ approvalMap' = ApprovalFetcher_fetchApprovals(logs)
    /\ result' = IF ~includeZeroAllowances
                 THEN SelectSeq(approvalMap', hasAllowance)
                 ELSE approvalMap'
    /\ UNCHANGED <<logs, nonReduceVars>>

\* The private fetchApprovals of services/approval-service.ts is a placeholder.
ApprovalService_fetchApprovals(walletAddress) == <<>>

allowanceIsNotZeroString(a) == a.allowance # <<0>>

getApprovalsForWallet(includeZeroApprovals) ==
    /\ op = "none"
    /\ op' = "getApprovalsForWallet"
    /\ options' = [includeZero |-> includeZeroApprovals]
    /\ approvalMap' = ApprovalService_fetchApprovals(Owner)
    /\ result' = IF includeZeroApprovals
                 THEN approvalMap'
                 ELSE SelectSeq(approvalMap', allowanceIsNotZeroString)
    /\ UNCHANGED <<logs, nonReduceVars>>

----------------------------------------------------------------------------
(* history/history-tracker.ts: HistoryTracker *)

SecondsPerBlock == 12

\* client.getBlock({ blockNumber }).timestamp, in seconds.
blockTimestamp(b) == b * SecondsPerBlock

includes(list, x) == x \in list

\* opts = [tokenAddresses, spenderAddresses, includeRevocations], each optional.
RECURSIVE processLogs(_, _)
processLogs(ls, opts) ==
    IF ls = <<>> THEN <<>>
    ELSE LET events == processLogs(SubSeq(ls, 1, Len(ls) - 1), opts)
             log == ls[Len(ls)]
             isRevocation == log.data[1] = 0
         IN IF \/ log.blockNumber = None \/ log.blockNumber = Some(0)
               \/ log.transactionHash = None
            THEN events
            ELSE IF Len(log.topics) < 3 \/ log.data = None
            THEN events
            ELSE IF /\ opts.tokenAddresses # None
                    /\ ~includes(opts.tokenAddresses[1], log.address)
            THEN events
            ELSE IF /\ opts.spenderAddresses # None
                    /\ ~includes(opts.spenderAddresses[1], logArgs(log).spender)
            THEN events
            ELSE IF isRevocation /\ opts.includeRevocations \in {None, Some(FALSE)}
            THEN events
            ELSE Append(events,
                   [transactionHash |-> log.transactionHash[1],
                    blockNumber |-> log.blockNumber[1],
                    timestamp |-> blockTimestamp(log.blockNumber[1]) * 1000,
                    owner |-> logArgs(log).owner,
                    spender |-> logArgs(log).spender,
                    tokenAddress |-> log.address,
                    amount |-> logArgs(log).value,
                    eventType |-> IF isRevocation THEN "revocation" ELSE "approval"])

compareTimestamps(a, b) == a.timestamp - b.timestamp

insertByTimestamp(s, e) ==
    LET n == Cardinality({ i \in 1..Len(s) : compareTimestamps(s[i], e) <= 0 })
    IN SubSeq(s, 1, n) \o <<e>> \o SubSeq(s, n + 1, Len(s))

RECURSIVE sortByTimestamp(_)
sortByTimestamp(s) ==
    IF s = <<>> THEN <<>>
    ELSE insertByTimestamp(sortByTimestamp(SubSeq(s, 1, Len(s) - 1)), s[Len(s)])

\* The pages of getLogs, concatenated, are ls.
fetchApprovalEvents(ls, opts) == sortByTimestamp(processLogs(ls, opts))

RECURSIVE buildTimelinesFold(_)
buildTimelinesFold(events) ==
    IF events = <<>> THEN <<>>
    ELSE LET m == buildTimelinesFold(SubSeq(events, 1, Len(events) - 1))
             event == events[Len(events)]
             key == <<event.tokenAddress, event.spender>>
             m1 == IF ~MapHas(m, key)
                   THEN MapSet(m, key,
                          [tokenAddress |-> event.tokenAddress,
                           spender |-> event.spender,
                           events |-> <<>>,
                           firstApproval |-> event.timestamp,
                           lastModified |-> event.timestamp,
                           currentAmount |-> event.amount,
                           changeCount |-> 0])
                   ELSE m
             timeline == MapGet(m1, key)[1]
         IN MapSet(m1, key,
              [timeline EXCEPT !.events = Append(@, event),
                               !.lastModified = event.timestamp,
                               !.currentAmount = event.amount,
                               !.changeCount = @ + 1])

buildTimelines(events) == MapValues(buildTimelinesFold(events))

isApprovalEvent(e) == e.eventType = "approval"
isRevocationEvent(e) == e.eventType = "revocation"

MathMin(S) == CHOOSE x \in S : \A y \in S : x <= y
MathMax(S) == CHOOSE x \in S : \A y \in S : y <= x

WalletHistory(events) ==
    LET approvalEvents == SelectSeq(events, isApprovalEvent)
        revocationEvents == SelectSeq(events, isRevocationEvent)
        timestamps == { approvalEvents[i].timestamp : i \in 1..Len(approvalEvents) }
    IN [walletAddress |-> Owner,
        timelines |-> buildTimelines(events),
        totalApprovals |-> Len(approvalEvents),
        totalRevocations |-> Len(revocationEvents),
        oldestApproval |-> IF timestamps # {} THEN Some(MathMin(timestamps)) ELSE None,
        newestApproval |-> IF timestamps # {} THEN Some(MathMax(timestamps)) ELSE None]

getApprovalHistory(opts) ==
    /\ op = "none"
    /\ op' = "getApprovalHistory"
    /\ options' = opts
    /\ result' = WalletHistory(fetchApprovalEvents(logs, opts))
    /\ approvalMap' = result'.timelines
    /\ UNCHANGED <<logs, nonReduceVars>>

\* The options a caller passes; {} leaves every field unset.
HistoryQueryOptions ==
    [tokenAddresses : {None, Some({"0xaa"})},
     spenderAddresses : {None},
     includeRevocations : {None, Some(FALSE), Some(TRUE)}]

----------------------------------------------------------------------------

ReduceIdle ==
    /\ op = "none"
    /\ logs = <<>>
    /\ options = DefaultMode
    /\ approvalMap = <<>>
    /\ result = <<>>

ScoreIdle ==
    /\ now = NowStart
    /\ call = None
    /\ again = None

PrioIdle ==
    /\ prioOp = "none"
    /\ prioApprovals = <<>>
    /\ riskScores = <<>>
    /\ prioritized = <<>>
    /\ prioAgain = None

WalletIdle ==
    /\ walletOp = "none"
    /\ walletApprovals = <<>>
    /\ walletResult = None
    /\ labelled = None

NormIdle ==
    /\ rawLog = None
    /\ normalized = None

BatchIdle ==
    /\ batchInput = [items |-> <<>>, failing |-> {}]
    /\ batchRun = None

RetryIdle == retry = [pc |-> "idle"]

CacheIdle ==
    /\ approvalCache = <<>>
    /\ clock = 0
    /\ cacheCalls = <<>>

MetaIdle ==
    /\ metadataCache = <<>>
    /\ tokenInput = <<>>
    /\ metaCall = None

StoreIdle ==
    /\ store = <<>>
    /\ storeOptions = None
    /\ storeNow = 0
    /\ lastSet = [k \in {} |-> None]
    /\ storeOp = None

AggregateIdle ==
    /\ givenScores = <<>>
    /\ aggregate = None

PipeIdle ==
    /\ scoredApprovals = <<>>
    /\ scoreMap = None
    /\ recommended = None

ChunkIdle ==
    /\ rangeQuery = None
    /\ rangeStart = 0
    /\ rangesQueried = <<>>
    /\ rangePc = "idle"

OthersIdle == NormIdle /\ BatchIdle /\ RetryIdle /\ CacheIdle /\ MetaIdle /\ StoreIdle /\ AggregateIdle /\ PipeIdle /\ ChunkIdle

InitReduce == ReduceIdle /\ ScoreIdle /\ PrioIdle /\ WalletIdle /\ OthersIdle

NextReduce ==
    \/ \E l \in RawLogs : DeliverLog(l)
    \/ NewQuery
    \/ scanApprovals
    \/ parseApprovalLogs
    \/ fetchApprovals
    \/ \E z \in BOOLEAN : getApprovals(z)
    \/ \E z \in BOOLEAN : getApprovalsForWallet(z)
    \/ \E opts \in HistoryQueryOptions : getApprovalHistory(opts)

SpecReduce == InitReduce /\ [][NextReduce]_vars

----------------------------------------------------------------------------
(* Risk scoring.  Times are in days (Date.now() and every timestamp), so the *)
(* division by the milliseconds of a day is the identity on them; scores and *)
(* weights are fixed-point numbers in hundredths.                            *)

RISK_THRESHOLDS_LOW == 25
RISK_THRESHOLDS_MEDIUM == 50
RISK_THRESHOLDS_HIGH == 75
RISK_THRESHOLDS_CRITICAL == 90

DORMANT_DAYS_THRESHOLD == 90

\* MAX_UINT256 / 2, and 10^21 on the reduced scale of amounts.
UNLIMITED_APPROVAL_THRESHOLD == MAX_UINT256 \div 2
HIGH_VALUE_THRESHOLD == 200

\* Math.round of the quotient n / d (d > 0): halves round up.
MathRound(n, d) == ((2 * n) + d) \div (2 * d)

Min(a, b) == IF a < b THEN a ELSE b
Max(a, b) == IF a > b THEN a ELSE b

\* Array.prototype.reduce((sum, x) => sum + x, 0) over a sequence of numbers.
RECURSIVE Sum(_)
Sum(s) == IF s = <<>> THEN 0 ELSE Sum(SubSeq(s, 1, Len(s) - 1)) + s[Len(s)]

(* RiskScorer *)

\* A variant in which the unlimited factor scores 0.5 instead of 0.9.
checkUnlimitedApproval_halfScore(approval) ==
    IF approval.value >= UNLIMITED_APPROVAL_THRESHOLD
    THEN Some([name |-> "unlimited_approval", score |-> 50,
               description |-> <<"Unlimited token approval detected">>,
               weight |-> 300])
    ELSE None

checkUnlimitedApproval(approval) ==
    IF approval.value >= UNLIMITED_APPROVAL_THRESHOLD
    THEN Some([name |-> "unlimited_approval", score |-> 90,
               description |-> <<"Unlimited token approval detected">>,
               weight |-> 300])
    ELSE None

checkDormantApproval(approval, dateNow) ==
    IF approval.lastUsed = None
    THEN Some([name |-> "never_used", score |-> 60,
               description |-> <<"Approval has never been used">>,
               weight |-> 200])
    ELSE LET daysSinceUse == dateNow - approval.lastUsed[1]
         IN IF daysSinceUse > DORMANT_DAYS_THRESHOLD
            THEN Some([name |-> "dormant_approval", score |-> 70,
                       description |-> <<"Approval unused for", daysSinceUse, "days">>,
                       weight |-> 200])
            ELSE None

checkUnverifiedSpender(approval) ==
    IF ~approval.spenderVerified
    THEN Some([name |-> "unverified_spender", score |-> 50,
               description |-> <<"Spender contract is not verified">>,
               weight |-> 150])
    ELSE None

checkHighValueApproval(approval) ==
    IF approval.value >= UNLIMITED_APPROVAL_THRESHOLD
    THEN None
    ELSE IF approval.value >= HIGH_VALUE_THRESHOLD
    THEN Some([name |-> "high_value", score |-> 40,
               description |-> <<"High value approval amount">>,
               weight |-> 100])
    ELSE None

calculateRiskLevel(score) ==
    IF score >= RISK_THRESHOLDS_CRITICAL THEN "critical"
    ELSE IF score >= RISK_THRESHOLDS_HIGH THEN "high"
    ELSE IF score >= RISK_THRESHOLDS_MEDIUM THEN "medium"
    ELSE "low"

\* dateNow is what Date.now() returns while the call runs.
scoreApproval(approval, dateNow) ==
    IF approval.value = 0
    THEN [overall |-> 0, level |-> "low",
          factors |-> <<[name |-> "zero_approval", score |-> 0,
                         description |-> <<"Approval has zero value (effectively revoked)">>,
                         weight |-> 100]>>]
    ELSE LET factors == checkUnlimitedApproval(approval)
                        \o checkDormantApproval(approval, dateNow)
                        \o checkUnverifiedSpender(approval)
                        \o checkHighValueApproval(approval)
             \* totalScore and totalWeight, in ten-thousandths and hundredths
             totalScore == Sum([i \in 1..Len(factors) |->
                                   factors[i].score * factors[i].weight])
             totalWeight == Sum([i \in 1..Len(factors) |-> factors[i].weight])
             normalizedScore == IF totalWeight > 0
                                THEN Min(100, MathRound(totalScore, totalWeight))
                                ELSE 0
         IN [overall |-> normalizedScore,
             level |-> calculateRiskLevel(normalizedScore),
             factors |-> factors]


(* risk/risk-factors.ts and risk/risk-calculator.ts: RiskCalculator *)

DEFAULT_THRESHOLDS_critical == 90
DEFAULT_THRESHOLDS_high == 70
DEFAULT_THRESHOLDS_medium == 40
DEFAULT_THRESHOLDS_low == 20

dormancyDays == 90

\* baseScore in points, weight in hundredths.
RiskFactors(category) ==
    CASE category = "unlimited_allowance" -> [baseScore |-> 50, weight |-> 150]
      [] category = "dormant_approval" -> [baseScore |-> 30, weight |-> 120]
      [] category = "unverified_spender" -> [baseScore |-> 40, weight |-> 130]
      [] category = "high_value_token" -> [baseScore |-> 25, weight |-> 110]
      [] category = "suspicious_contract" -> [baseScore |-> 60, weight |-> 140]
      [] category = "recent_approval" -> [baseScore |-> 0 - 10, weight |-> 80]

\* The multipliers, in hundredths.
getDormancyMultiplier(daysSinceLastUse) ==
    IF daysSinceLastUse > 365 THEN 150
    ELSE IF daysSinceLastUse > 180 THEN 130
    ELSE IF daysSinceLastUse > 90 THEN 110
    ELSE IF daysSinceLastUse > 30 THEN 100
    ELSE 80

getValueMultiplier(usdValue) ==
    IF usdValue > 100000 THEN 200
    ELSE IF usdValue > 10000 THEN 150
    ELSE IF usdValue > 1000 THEN 120
    ELSE IF usdValue > 100 THEN 100
    ELSE 70

getDaysSince(timestamp, dateNow) == dateNow - timestamp

\* score is in hundredths of a point.
scoreToLevel(score) ==
    IF score >= DEFAULT_THRESHOLDS_critical * 100 THEN "critical"
    ELSE IF score >= DEFAULT_THRESHOLDS_high * 100 THEN "high"
    ELSE IF score >= DEFAULT_THRESHOLDS_medium * 100 THEN "medium"
    ELSE IF score >= DEFAULT_THRESHOLDS_low * 100 THEN "low"
    ELSE "minimal"

hasCategory(breakdown, category) ==
    \E i \in 1..Len(breakdown) : breakdown[i].category = category

RiskCalculator_generateRecommendations(breakdown, level) ==
    LET recommendations ==
            (IF level \in {"critical", "high"}
             THEN <<"Immediate revocation recommended">> ELSE <<>>)
            \o (IF hasCategory(breakdown, "unlimited_allowance")
                THEN <<"Consider reducing allowance to specific amount needed">>
                ELSE <<>>)
            \o (IF hasCategory(breakdown, "dormant_approval")
                THEN <<"Approval appears unused - consider revoking if no longer needed">>
                ELSE <<>>)
            \o (IF hasCategory(breakdown, "high_value_token")
                THEN <<"High value at risk - ensure spender is trusted">>
                ELSE <<>>)
    IN IF Len(recommendations) = 0
       THEN <<"No immediate action required">>
       ELSE recommendations

\* Each breakdown entry: score in hundredths, weight in ten-thousandths.
RiskCalculator_calculateApprovalRisk(approval, dateNow) ==
    LET unlimited ==
            IF approval.isUnlimited
            THEN LET factor == RiskFactors("unlimited_allowance")
                 IN <<[category |-> "unlimited_allowance",
                       score |-> factor.baseScore * factor.weight,
                       description |-> <<"Unlimited token approval poses maximum risk">>,
                       weight |-> factor.weight * 100]>>
            ELSE <<>>
        dormancy ==
            IF approval.lastUsed # None /\ approval.lastUsed # Some(0)
            THEN LET daysSinceUse == getDaysSince(approval.lastUsed[1], dateNow)
                     factor == RiskFactors("dormant_approval")
                     multiplier == getDormancyMultiplier(daysSinceUse)
                 IN IF daysSinceUse > dormancyDays
                    THEN <<[category |-> "dormant_approval",
                            score |-> (factor.baseScore * factor.weight * multiplier) \div 100,
                            description |-> <<"Approval has not been used for extended period",
                                              daysSinceUse>>,
                            weight |-> factor.weight * multiplier]>>
                    ELSE <<>>
            ELSE <<>>
        valueRisk ==
            IF approval.usdValue # None /\ approval.usdValue # Some(0)
               /\ approval.usdValue[1] > 100
            THEN LET factor == RiskFactors("high_value_token")
                     multiplier == getValueMultiplier(approval.usdValue[1])
                 IN <<[category |-> "high_value_token",
                       score |-> (factor.baseScore * factor.weight * multiplier) \div 100,
                       description |-> <<"Token has significant monetary value",
                                         approval.usdValue[1]>>,
                       weight |-> factor.weight * multiplier]>>
            ELSE <<>>
        recent ==
            IF approval.approvedAt # None /\ approval.approvedAt # Some(0)
               /\ getDaysSince(approval.approvedAt[1], dateNow) < 7
            THEN LET factor == RiskFactors("recent_approval")
                 IN <<[category |-> "recent_approval",
                       score |-> factor.baseScore * factor.weight,
                       description |-> <<"Recent approval may be intentionally active">>,
                       weight |-> factor.weight * 100]>>
            ELSE <<>>
        breakdown == unlimited \o dormancy \o valueRisk \o recent
        totalScore == Sum([i \in 1..Len(breakdown) |-> breakdown[i].score])
        normalizedScore == Max(0, Min(100 * 100, totalScore))
        level == scoreToLevel(normalizedScore)
    IN [level |-> level,
        score |-> normalizedScore,
        breakdown |-> breakdown,
        recommendations |-> RiskCalculator_generateRecommendations(breakdown, level)]

(* constants.ts: the risk scoring functions *)

UNLIMITED_THRESHOLD == (MAX_UINT256 * 99) \div 100

RISK_WEIGHTS_UNLIMITED_APPROVAL == 40
RISK_WEIGHTS_DORMANT_APPROVAL == 25
RISK_WEIGHTS_UNVERIFIED_SPENDER == 20
RISK_WEIGHTS_HIGH_VALUE_TOKEN == 10
RISK_WEIGHTS_UNKNOWN_SPENDER == 15

daysSince(timestamp, dateNow) == dateNow - timestamp

isUnlimitedApproval(amount) == amount >= UNLIMITED_THRESHOLD

isDormantApproval(lastUsedTimestamp, dateNow) ==
    IF lastUsedTimestamp = None
    THEN TRUE
    ELSE daysSince(lastUsedTimestamp[1], dateNow) > DORMANT_DAYS_THRESHOLD

getRiskLevel(score) ==
    IF score >= RISK_THRESHOLDS_CRITICAL THEN "critical"
    ELSE IF score >= RISK_THRESHOLDS_HIGH THEN "high"
    ELSE IF score >= RISK_THRESHOLDS_MEDIUM THEN "medium"
    ELSE "low"

generateRecommendation(score, factors) ==
    LET level == getRiskLevel(score)
    IN CASE level = "critical" ->
              "Immediate revocation recommended. This approval poses significant security risks."
         [] level = "high" ->
              "Revocation strongly recommended. Consider removing this approval soon."
         [] level = "medium" ->
              "Review this approval. Consider revoking if the spender is not actively used."
         [] level = "low" -> "Low risk approval. Monitor periodically."
         [] OTHER -> "Unable to determine recommendation."

calculateApprovalRisk(approval, dateNow) ==
    LET unlimited == isUnlimitedApproval(approval.allowance)
        dormant == isDormantApproval(approval.lastUsed, dateNow)
        unverified == ~approval.spenderVerified
        unknown == approval.spenderName = None \/ approval.spenderName = Some("Unknown")
        sum == (IF unlimited THEN RISK_WEIGHTS_UNLIMITED_APPROVAL ELSE 0)
               + (IF dormant THEN RISK_WEIGHTS_DORMANT_APPROVAL ELSE 0)
               + (IF unverified THEN RISK_WEIGHTS_UNVERIFIED_SPENDER ELSE 0)
               + (IF unknown THEN RISK_WEIGHTS_UNKNOWN_SPENDER ELSE 0)
        factors == (IF unlimited THEN <<"Unlimited approval amount">> ELSE <<>>)
                   \o (IF dormant THEN <<"Dormant for over 90 days">> ELSE <<>>)
                   \o (IF unverified THEN <<"Unverified spender contract">> ELSE <<>>)
                   \o (IF unknown THEN <<"Unknown spender identity">> ELSE <<>>)
        score == Min(sum, 100)
    IN [score |-> score,
        level |-> getRiskLevel(score),
        factors |-> factors,
        recommendation |-> generateRecommendation(score, factors)]

(* RiskAnalysisService (the one with analyzeApproval over string allowances) *)

\* A character of an allowance string is its digit value; any other number
\* stands for a character that is not a digit.
isDecimalString(str) == \A i \in 1..Len(str) : str[i] \in 0..9

RiskAnalysisConfigs ==
    [unlimitedThreshold : {UNLIMITED_THRESHOLD, UNLIMITED_APPROVAL_THRESHOLD},
     dormantDays : {90}]

\* BigInt(allowance) throws on a string that is not a number: the catch
\* returns false.
RiskAnalysisService_isUnlimitedApproval(config, allowance) ==
    IF isDecimalString(allowance)
    THEN BigInt(allowance) >= config.unlimitedThreshold
    ELSE FALSE

RiskAnalysisService_isDormantApproval(config, lastUsed, dateNow) ==
    IF lastUsed = None THEN TRUE
    ELSE LET daysSinceUse == dateNow - lastUsed[1]
         IN daysSinceUse >= config.dormantDays

assessSpenderRisk(spenderAddress) == 0

RiskAnalysisService_calculateRiskLevel(score) ==
    IF score >= 70 THEN "critical"
    ELSE IF score >= 50 THEN "high"
    ELSE IF score >= 30 THEN "medium"
    ELSE "low"

RiskAnalysisService_generateRecommendation(level, factors) ==
    CASE level = "critical" -> "Immediate revocation strongly recommended"
      [] level = "high" -> "Consider revoking this approval soon"
      [] level = "medium" -> "Review and consider reducing approval amount"
      [] level = "low" -> "No immediate action required"
      [] OTHER -> "Unable to determine recommendation"

analyzeApproval(config, approval, dateNow) ==
    LET isUnlimited == RiskAnalysisService_isUnlimitedApproval(config, approval.allowance)
        isDormant == RiskAnalysisService_isDormantApproval(config, approval.lastUsed, dateNow)
        spenderRisk == assessSpenderRisk(approval.spenderAddress)
        score == (IF isUnlimited THEN RISK_WEIGHTS_UNLIMITED_APPROVAL ELSE 0)
                 + (IF isDormant THEN RISK_WEIGHTS_DORMANT_APPROVAL ELSE 0)
                 + (IF spenderRisk > 0 THEN spenderRisk ELSE 0)
        factors == (IF isUnlimited THEN <<<<"Unlimited approval amount">>>> ELSE <<>>)
                   \o (IF isDormant
                       THEN <<<<"No activity in", config.dormantDays, "+ days">>>>
                       ELSE <<>>)
                   \o (IF spenderRisk > 0 THEN <<<<"Unknown or risky spender">>>> ELSE <<>>)
        level == RiskAnalysisService_calculateRiskLevel(score)
    IN [level |-> level,
        score |-> Min(score, 100),
        factors |-> factors,
        recommendation |-> RiskAnalysisService_generateRecommendation(level, factors)]

\* services/risk-analysis-service.ts
determineRiskLevel(score) ==
    IF score >= 80 THEN "critical"
    ELSE IF score >= 60 THEN "high"
    ELSE IF score >= 40 THEN "medium"
    ELSE "low"

(* The scoring calls *)

LastUsedAges == {5, 30, 90, 180, 365, 399}
ApprovedAges == {6, 100}
LastUsedChoices == {None} \cup { Some(NowStart - d) : d \in LastUsedAges }
ApprovedAtChoices == {None} \cup { Some(NowStart - d) : d \in ApprovedAges }

\* Approval of the RiskScorer.
Approvals ==
    [value : {0, 100, HIGH_VALUE_THRESHOLD, UNLIMITED_APPROVAL_THRESHOLD - 1,
              UNLIMITED_APPROVAL_THRESHOLD, MAX_UINT256},
     lastUsed : LastUsedChoices,
     spenderVerified : BOOLEAN]

\* TokenApproval of the RiskCalculator.
CalculatorApprovals ==
    [isUnlimited : BOOLEAN,
     lastUsed : LastUsedChoices,
     usdValue : {None, Some(100), Some(101), Some(1001), Some(10001), Some(100001)},
     approvedAt : ApprovedAtChoices]

\* TokenApproval of constants.ts.
TokenApprovals ==
    [allowance : {0, 100, UNLIMITED_THRESHOLD - 1, UNLIMITED_THRESHOLD, MAX_UINT256},
     lastUsed : LastUsedChoices,
     spenderVerified : BOOLEAN,
     spenderName : {None, Some("Unknown"), Some("Uniswap V2 Router")}]

\* TokenApproval of the RiskAnalysisService; <<1, 99>> is a string that is not
\* a number.
AnalysisApprovals ==
    [allowance : { bigintToString(n) : n \in {0, 100, UNLIMITED_APPROVAL_THRESHOLD, MAX_UINT256} }
                   \cup {<<1, 99>>},
     lastUsed : LastUsedChoices,
     spenderAddress : SpenderSpellings]

evaluate(fn, approval, dateNow) ==
    CASE fn = "RiskScorer.scoreApproval" -> scoreApproval(approval, dateNow)
      [] fn = "RiskAnalysisService.analyzeApproval" ->
            analyzeApproval(approval.config, approval.approval, dateNow)
      [] fn = "RiskCalculator.calculateApprovalRisk" ->
            RiskCalculator_calculateApprovalRisk(approval, dateNow)
      [] fn = "calculateApprovalRisk" -> calculateApprovalRisk(approval, dateNow)

\* The wall clock advances by a day.
Tick ==
    /\ now < NowStart + MaxTicks
    /\ now' = now + 1
    /\ UNCHANGED <<call, again, nonScoreVars>>

CallScoreApproval(approval) ==
    /\ call = None
    /\ call' = Some([fn |-> "RiskScorer.scoreApproval", args |-> approval, at |-> now,
                     ret |-> scoreApproval(approval, now)])
    /\ UNCHANGED <<now, again, nonScoreVars>>

CallRiskCalculator(approval) ==
    /\ call = None
    /\ call' = Some([fn |-> "RiskCalculator.calculateApprovalRisk", args |-> approval,
                     at |-> now,
                     ret |-> RiskCalculator_calculateApprovalRisk(approval, now)])
    /\ UNCHANGED <<now, again, nonScoreVars>>

CallCalculateApprovalRisk(approval) ==
    /\ call = None
    /\ call' = Some([fn |-> "calculateApprovalRisk", args |-> approval, at |-> now,
                     ret |-> calculateApprovalRisk(approval, now)])
    /\ UNCHANGED <<now, again, nonScoreVars>>

CallAnalyzeApproval(config, approval) ==
    /\ call = None
    /\ call' = Some([fn |-> "RiskAnalysisService.analyzeApproval",
                     args |-> [config |-> config, approval |-> approval], at |-> now,
                     ret |-> analyzeApproval(config, approval, now)])
    /\ UNCHANGED <<now, again, nonScoreVars>>

\* The caller repeats the last call with identical arguments.
CallAgain ==
    /\ call # None
    /\ again = None
    /\ again' = Some([at |-> now, ret |-> evaluate(call[1].fn, call[1].args, now)])
    /\ UNCHANGED <<now, call, nonScoreVars>>

\* The caller drops both results.
Forget ==
    /\ again # None
    /\ call' = None
    /\ again' = None
    /\ UNCHANGED <<now, nonScoreVars>>

InitScore == ReduceIdle /\ ScoreIdle /\ PrioIdle /\ WalletIdle /\ OthersIdle

NextScore ==
    \/ Tick
    \/ \E a \in Approvals : CallScoreApproval(a)
    \/ \E a \in CalculatorApprovals : CallRiskCalculator(a)
    \/ \E a \in TokenApprovals : CallCalculateApprovalRisk(a)
    \/ \E c \in RiskAnalysisConfigs, a \in AnalysisApprovals : CallAnalyzeApproval(c, a)
    \/ CallAgain
    \/ Forget

SpecScore == InitScore /\ [][NextScore]_vars

----------------------------------------------------------------------------
(* scanner.ts: RevocationService.  Priorities and the weights of the factors *)
(* are fixed-point numbers in tenths.                                        *)

riskWeights(name) ==
    CASE name = "unlimited" -> Some(30)
      [] name = "dormant" -> Some(20)
      [] name = "highValue" -> Some(25)
      [] name = "unknownSpender" -> Some(15)
      [] name = "recentlyCompromised" -> Some(40)
      [] OTHER -> None

getApprovalKey(approval) ==
    <<toLowerCase(approval.tokenAddress), toLowerCase(approval.spenderAddress)>>

\* A variant that never recommends revoking a medium score.
shouldRecommendRevocation_highOnly(riskScore) ==
    IF riskScore.level = "critical" \/ riskScore.level = "high" THEN TRUE
    ELSE FALSE

shouldRecommendRevocation(riskScore) ==
    IF riskScore.level = "critical" \/ riskScore.level = "high" THEN TRUE
    ELSE IF riskScore.level = "medium" /\ Len(riskScore.factors) >= 2 THEN TRUE
    ELSE FALSE

calculateUrgency(riskScore) ==
    IF riskScore.level = "critical" THEN "immediate"
    ELSE IF riskScore.level = "high" THEN "high"
    ELSE IF riskScore.level = "medium" THEN "medium"
    ELSE "low"

hasFactor(riskScore, name) ==
    \E i \in 1..Len(riskScore.factors) : riskScore.factors[i].name = name

generateReason(approval, riskScore) ==
    LET reasons ==
            (IF approval.isUnlimited
             THEN <<"Unlimited approval poses significant risk if spender is compromised">>
             ELSE <<>>)
            \o (IF hasFactor(riskScore, "dormant_approval")
                THEN <<"Approval has been dormant and may no longer be needed">>
                ELSE <<>>)
            \o (IF hasFactor(riskScore, "unknown_spender")
                THEN <<"Spender contract is not verified or recognized">>
                ELSE <<>>)
            \o (IF hasFactor(riskScore, "high_value_approval")
                THEN <<"High value at risk relative to wallet holdings">>
                ELSE <<>>)
    IN IF Len(reasons) = 0
       THEN <<"General security hygiene recommendation">>
       ELSE reasons

estimateGasCost == 45000

createRecommendation(approval, riskScore, dateNow) ==
    [approval |-> approval,
     riskScore |-> riskScore,
     shouldRevoke |-> shouldRecommendRevocation(riskScore),
     urgency |-> calculateUrgency(riskScore),
     reason |-> generateReason(approval, riskScore),
     estimatedGasCost |-> estimateGasCost,
     createdAt |-> dateNow]

urgencyOrder(urgency) ==
    CASE urgency = "immediate" -> 0
      [] urgency = "high" -> 1
      [] urgency = "medium" -> 2
      [] urgency = "low" -> 3

\* The comparator of sortByPriority: negative when a goes before b.
compareRecommendations(a, b) ==
    LET urgencyDiff == urgencyOrder(a.urgency) - urgencyOrder(b.urgency)
    IN IF urgencyDiff # 0
       THEN urgencyDiff
       ELSE b.riskScore.score - a.riskScore.score

\* Array.prototype.sort is stable: an element goes behind every element that
\* does not compare greater than it.
RECURSIVE insertRecommendation(_, _)
insertRecommendation(sorted, rec) ==
    IF sorted = <<>> THEN <<rec>>
    ELSE LET last == sorted[Len(sorted)]
         IN IF compareRecommendations(last, rec) > 0
            THEN Append(insertRecommendation(SubSeq(sorted, 1, Len(sorted) - 1), rec), last)
            ELSE Append(sorted, rec)

RECURSIVE sortByPriority(_)
sortByPriority(recommendations) ==
    IF recommendations = <<>> THEN <<>>
    ELSE insertRecommendation(
             sortByPriority(SubSeq(recommendations, 1, Len(recommendations) - 1)),
             recommendations[Len(recommendations)])

RECURSIVE createRecommendations(_, _, _)
createRecommendations(approvalList, scores, dateNow) ==
    IF approvalList = <<>> THEN <<>>
    ELSE LET rest == createRecommendations(
                         SubSeq(approvalList, 1, Len(approvalList) - 1), scores, dateNow)
             approval == approvalList[Len(approvalList)]
             riskScore == MapGet(scores, getApprovalKey(approval))
         IN IF riskScore = None
            THEN rest
            ELSE Append(rest, createRecommendation(approval, riskScore[1], dateNow))

RevocationService_generateRecommendations(approvalList, scores, dateNow) ==
    sortByPriority(createRecommendations(approvalList, scores, dateNow))

calculatePriorityScore(recommendation) ==
    LET factors == recommendation.riskScore.factors
        weight(name) == IF riskWeights(name) = None THEN 10 ELSE riskWeights(name)[1]
    IN (recommendation.riskScore.score * 10)
       + Sum([i \in 1..Len(factors) |-> factors[i].impact * weight(factors[i].name)])

RECURSIVE insertByPriorityDesc(_, _)
insertByPriorityDesc(sorted, entry) ==
    IF sorted = <<>> THEN <<entry>>
    ELSE LET last == sorted[Len(sorted)]
         IN IF entry.priority - last.priority > 0
            THEN Append(insertByPriorityDesc(SubSeq(sorted, 1, Len(sorted) - 1), entry), last)
            ELSE Append(sorted, entry)

RECURSIVE sortByPriorityDesc(_)
sortByPriorityDesc(entries) ==
    IF entries = <<>> THEN <<>>
    ELSE insertByPriorityDesc(sortByPriorityDesc(SubSeq(entries, 1, Len(entries) - 1)),
                              entries[Len(entries)])

toRevocationPriority(rec) ==
    [approval |-> rec.approval,
     riskScore |-> rec.riskScore,
     recommendation |-> rec,
     priority |-> calculatePriorityScore(rec)]

RevocationService_getPrioritizedRevocations(approvalList, scores, dateNow) ==
    LET recommendations == RevocationService_generateRecommendations(approvalList, scores, dateNow)
        toRevoke == SelectSeq(recommendations, LAMBDA rec : rec.shouldRevoke)
    IN sortByPriorityDesc([i \in 1..Len(toRevoke) |-> toRevocationPriority(toRevoke[i])])

\* The prioApprovals and risk scores a caller hands over.  The level of a score
\* is the one getRiskLevel gives it.
ApprovalChoices ==
    [tokenAddress : TokenSpellings, spenderAddress : SpenderSpellings, isUnlimited : {TRUE}]

riskScoreOf(score, factors) ==
    [score |-> score, level |-> getRiskLevel(score), factors |-> factors]

PrioRiskScores ==
    { riskScoreOf(90, <<>>),
      riskScoreOf(95, <<[name |-> "unlimited", impact |-> 10]>>),
      riskScoreOf(80, <<>>),
      riskScoreOf(76, <<[name |-> "unlimited", impact |-> 20]>>),
      riskScoreOf(60, <<[name |-> "dormant", impact |-> 5],
                        [name |-> "unverified_spender", impact |-> 5]>>),
      riskScoreOf(55, <<>>),
      riskScoreOf(52, <<[name |-> "highValue", impact |-> 4]>>),
      riskScoreOf(10, <<>>) }

\* The caller adds an approval, with or without a risk score for its pair.
AddApproval(approval, riskScore) ==
    /\ prioOp = "none"
    /\ Len(prioApprovals) < MaxApprovals
    /\ prioApprovals' = Append(prioApprovals, approval)
    /\ riskScores' = IF riskScore = None
                     THEN riskScores
                     ELSE MapSet(riskScores, getApprovalKey(approval), riskScore[1])
    /\ UNCHANGED <<prioOp, prioritized, prioAgain, nonPrioVars>>

generateRecommendations ==
    /\ prioOp = "none"
    /\ prioOp' = "generateRecommendations"
    /\ prioritized' = RevocationService_generateRecommendations(prioApprovals, riskScores, now)
    /\ UNCHANGED <<prioApprovals, riskScores, prioAgain, nonPrioVars>>

getPrioritizedRevocations ==
    /\ prioOp = "none"
    /\ prioOp' = "getPrioritizedRevocations"
    /\ prioritized' = RevocationService_getPrioritizedRevocations(prioApprovals, riskScores, now)
    /\ UNCHANGED <<prioApprovals, riskScores, prioAgain, nonPrioVars>>

\* The caller starts over with new prioApprovals.
NewApprovals ==
    /\ prioOp # "none"
    /\ prioOp' = "none"
    /\ prioApprovals' = <<>>
    /\ riskScores' = <<>>
    /\ prioritized' = <<>>
    /\ prioAgain' = None
    /\ UNCHANGED nonPrioVars

\* The caller runs generateRecommendations once more on the same arguments.
generateRecommendationsAgain ==
    /\ prioOp = "generateRecommendations"
    /\ prioAgain = None
    /\ prioAgain' = Some(RevocationService_generateRecommendations(prioApprovals, riskScores, now))
    /\ UNCHANGED <<prioOp, prioApprovals, riskScores, prioritized, nonPrioVars>>

InitPrio == ReduceIdle /\ ScoreIdle /\ PrioIdle /\ WalletIdle /\ OthersIdle

NextPrio ==
    \/ \E a \in ApprovalChoices, rs \in {None} \cup { Some(r) : r \in PrioRiskScores } :
          AddApproval(a, rs)
    \/ generateRecommendations
    \/ getPrioritizedRevocations
    \/ generateRecommendationsAgain
    \/ NewApprovals
    \/ Tick

SpecPrio == InitPrio /\ [][NextPrio]_vars

----------------------------------------------------------------------------
(* The wallet-level scores.  A score that the code keeps as a floating-point  *)
(* number is the exact fraction num / den here.                               *)

\* Math.round of the non-negative fraction q.
roundFraction(q) == MathRound(q.num, q.den)

fractionAtLeast(q, n) == q.num >= n * q.den

\* Math.max(0, Math.min(100, q)) for a fraction of hundredths of a point.
clampFraction(q) ==
    IF q.num < 0 THEN [num |-> 0, den |-> 1]
    ELSE IF q.num > 100 * 100 * q.den THEN [num |-> 100 * 100, den |-> 1]
    ELSE q

RECURSIVE MaxOf(_)
MaxOf(numbers) ==
    IF Len(numbers) = 1 THEN numbers[1]
    ELSE Max(MaxOf(SubSeq(numbers, 1, Len(numbers) - 1)), numbers[Len(numbers)])

\* scoreToLevel on a fraction of hundredths of a point.
scoreToLevelOfFraction(q) ==
    IF fractionAtLeast(q, DEFAULT_THRESHOLDS_critical * 100) THEN "critical"
    ELSE IF fractionAtLeast(q, DEFAULT_THRESHOLDS_high * 100) THEN "high"
    ELSE IF fractionAtLeast(q, DEFAULT_THRESHOLDS_medium * 100) THEN "medium"
    ELSE IF fractionAtLeast(q, DEFAULT_THRESHOLDS_low * 100) THEN "low"
    ELSE "minimal"

\* risk-calculator.ts: score in hundredths of a point, as a fraction.
calculateAggregateRisk(approvalList, dateNow) ==
    IF Len(approvalList) = 0
    THEN [level |-> "minimal", score |-> [num |-> 0, den |-> 1]]
    ELSE LET assessments == [i \in 1..Len(approvalList) |->
                               RiskCalculator_calculateApprovalRisk(approvalList[i], dateNow)]
             scores == [i \in 1..Len(assessments) |-> assessments[i].score]
             sum == Sum(scores)
             maxScore == MaxOf(scores)
             \* maxScore * 0.6 + (sum / length) * 0.4
             combinedScore == [num |-> (6 * maxScore * Len(scores)) + (4 * sum),
                               den |-> 10 * Len(scores)]
             normalizedScore == clampFraction(combinedScore)
         IN [level |-> scoreToLevelOfFraction(normalizedScore), score |-> normalizedScore]

\* RiskAnalysisService.getOverallRiskScore: points.
getOverallRiskScore(assessments) ==
    IF Len(assessments) = 0 THEN 0
    ELSE LET scores == [i \in 1..Len(assessments) |-> assessments[i].score]
             totalScore == Sum(scores)
             maxScore == MaxOf(scores)
             \* (totalScore / length) * 0.6 + maxScore * 0.4
         IN roundFraction([num |-> (6 * totalScore) + (4 * maxScore * Len(scores)),
                           den |-> 10 * Len(scores)])

\* getRiskLevel on a fraction of points.
getRiskLevelOfFraction(q) ==
    IF fractionAtLeast(q, RISK_THRESHOLDS_CRITICAL) THEN "critical"
    ELSE IF fractionAtLeast(q, RISK_THRESHOLDS_HIGH) THEN "high"
    ELSE IF fractionAtLeast(q, RISK_THRESHOLDS_MEDIUM) THEN "medium"
    ELSE "low"

RECURSIVE approvalRisksFold(_, _)
approvalRisksFold(approvalList, dateNow) ==
    IF approvalList = <<>> THEN <<>>
    ELSE LET approval == approvalList[Len(approvalList)]
         IN MapSet(approvalRisksFold(SubSeq(approvalList, 1, Len(approvalList) - 1), dateNow),
                   <<approval.tokenAddress, approval.spenderAddress>>,
                   calculateApprovalRisk(approval, dateNow))

\* constants.ts: points.
calculateWalletRiskScore(approvalList, dateNow) ==
    LET approvalRisks == approvalRisksFold(approvalList, dateNow)
        totalScore == Sum([i \in 1..Len(approvalList) |->
                             calculateApprovalRisk(approvalList[i], dateNow).score])
        risks == MapValues(approvalRisks)
        highRiskCount == Len(SelectSeq(risks,
                                       LAMBDA r : r.level = "high" \/ r.level = "critical"))
        \* Math.min(100, averageScore + highRiskCount * 5)
        boostedScore ==
            IF Len(approvalList) = 0 THEN [num |-> 0, den |-> 1]
            ELSE LET sum == totalScore + (highRiskCount * 5 * Len(approvalList))
                 IN IF sum > 100 * Len(approvalList)
                    THEN [num |-> 100, den |-> 1]
                    ELSE [num |-> sum, den |-> Len(approvalList)]
    IN [overallScore |-> roundFraction(boostedScore),
        overallLevel |-> getRiskLevelOfFraction(boostedScore),
        approvalRisks |-> approvalRisks]

\* One approval of the wallet, as each of the three services is handed it.
walletApproval(token, unlimited, lastUsed, verified) ==
    [calculator |-> [isUnlimited |-> unlimited, lastUsed |-> lastUsed,
                     usdValue |-> None, approvedAt |-> None],
     token |-> [tokenAddress |-> token, spenderAddress |-> "0xcc",
                allowance |-> IF unlimited THEN MAX_UINT256 ELSE 100,
                lastUsed |-> lastUsed, spenderVerified |-> verified,
                spenderName |-> IF verified THEN Some("Uniswap V2 Router") ELSE None],
     analysis |-> [tokenAddress |-> token, spenderAddress |-> "0xcc",
                   allowance |-> bigintToString(IF unlimited THEN MAX_UINT256 ELSE 100),
                   lastUsed |-> lastUsed]]

WalletApprovalChoices ==
    { walletApproval("0xaa", FALSE, Some(NowStart - 5), TRUE),
      walletApproval("0xbb", TRUE, Some(NowStart - 5), TRUE),
      walletApproval("0xdd", TRUE, Some(NowStart - 399), FALSE) }

DefaultAnalysisConfig == [unlimitedThreshold |-> UNLIMITED_APPROVAL_THRESHOLD, dormantDays |-> 90]

AddWalletApproval(approval) ==
    /\ walletOp = "none"
    /\ Len(walletApprovals) < MaxWallet
    /\ walletApprovals' = Append(walletApprovals, approval)
    /\ UNCHANGED <<walletOp, walletResult, labelled, nonWalletVars>>

CallCalculateAggregateRisk ==
    /\ walletOp = "none"
    /\ walletOp' = "calculateAggregateRisk"
    /\ walletResult' =
          Some(calculateAggregateRisk(
                   [i \in 1..Len(walletApprovals) |-> walletApprovals[i].calculator], now))
    /\ UNCHANGED <<walletApprovals, labelled, nonWalletVars>>

\* analyzeApproval of every approval, then getOverallRiskScore of the results.
CallGetOverallRiskScore ==
    /\ walletOp = "none"
    /\ walletOp' = "getOverallRiskScore"
    /\ walletResult' =
          Some(getOverallRiskScore(
                   [i \in 1..Len(walletApprovals) |->
                      analyzeApproval(DefaultAnalysisConfig, walletApprovals[i].analysis, now)]))
    /\ UNCHANGED <<walletApprovals, labelled, nonWalletVars>>

CallCalculateWalletRiskScore ==
    /\ walletOp = "none"
    /\ walletOp' = "calculateWalletRiskScore"
    /\ walletResult' =
          Some(calculateWalletRiskScore(
                   [i \in 1..Len(walletApprovals) |-> walletApprovals[i].token], now))
    /\ UNCHANGED <<walletApprovals, labelled, nonWalletVars>>

NewWallet ==
    /\ walletOp # "none"
    /\ walletOp' = "none"
    /\ walletApprovals' = <<>>
    /\ walletResult' = None
    /\ UNCHANGED <<labelled, nonWalletVars>>

\* Each score-to-level mapping of the code labels the score.
LabelScore(score) ==
    /\ walletOp = "none"
    /\ walletApprovals = <<>>
    /\ labelled' = Some([score |-> score,
                         getRiskLevel |-> getRiskLevel(score),
                         determineRiskLevel |-> determineRiskLevel(score),
                         calculateRiskLevel |-> RiskAnalysisService_calculateRiskLevel(score)])
    /\ UNCHANGED <<walletOp, walletApprovals, walletResult, nonWalletVars>>

InitWallet == ReduceIdle /\ ScoreIdle /\ PrioIdle /\ WalletIdle /\ OthersIdle

NextWallet ==
    \/ \E a \in WalletApprovalChoices : AddWalletApproval(a)
    \/ CallCalculateAggregateRisk
    \/ CallGetOverallRiskScore
    \/ CallCalculateWalletRiskScore
    \/ NewWallet
    \/ \E score \in 0..MaxScore : LabelScore(score)

SpecWallet == InitWallet /\ [][NextWallet]_vars

----------------------------------------------------------------------------
(* The event normalizers on one raw log record *)

\* Records as a node may deliver them: complete, or lacking the spender topic,
\* both address topics, the block number, or a data field BigInt can parse.
DeliveredRecords ==
    { [address |-> l.address,
       topics |-> SubSeq(l.topics, 1, n),
       data |-> IF hasData THEN l.data ELSE None,
       blockNumber |-> IF hasBlock THEN l.blockNumber ELSE None,
       transactionHash |-> l.transactionHash] :
         l \in RawLogs, n \in 1..3, hasData \in BOOLEAN, hasBlock \in BOOLEAN }

AllEvents == [tokenAddresses |-> None, spenderAddresses |-> None,
              includeRevocations |-> Some(TRUE)]

\* Each normalizer is handed the record.
Normalize(log) ==
    /\ rawLog' = Some(log)
    /\ normalized' = Some([parseApprovalLog |-> parseApprovalLog(log),
                           parseApprovalLogs |-> MapValues(parseApprovalLogsFold(<<log>>)),
                           processLogs |-> processLogs(<<log>>, AllEvents)])
    /\ UNCHANGED nonNormVars

InitNorm == ReduceIdle /\ ScoreIdle /\ PrioIdle /\ WalletIdle /\ OthersIdle

NextNorm == \E log \in DeliveredRecords : Normalize(log)

SpecNorm == InitNorm /\ [][NextNorm]_vars

----------------------------------------------------------------------------
(* utils/validation.ts: processBatch.  Indices are those of the code (from 0). *)

DEFAULT_DELAY_MS == 100

\* items.slice(from, to), with indices from 0.
slice(items, from, to) == SubSeq(items, from + 1, Min(to, Len(items)))

RECURSIVE createBatchesFrom(_, _, _)
createBatchesFrom(items, batchSize, i) ==
    IF i < Len(items)
    THEN <<slice(items, i, i + batchSize)>> \o createBatchesFrom(items, batchSize, i + batchSize)
    ELSE <<>>

\* A variant that drops a last batch that is not full.
createBatches_fullOnly(items, batchSize) ==
    createBatchesFrom(SubSeq(items, 1, Len(items) - (Len(items) % batchSize)), batchSize, 0)

\* batchSize <= 0 throws; the callers below pass batchSize > 0.
createBatches(items, batchSize) == createBatchesFrom(items, batchSize, 0)

\* The processor handed to processBatch: it rejects at the indices in failing
\* and resolves with an output made of the item and its index elsewhere.
processor(failing, item, index) ==
    IF index \in failing
    THEN [ok |-> FALSE, error |-> <<"Error", item, index>>]
    ELSE [ok |-> TRUE, value |-> <<"done", item, index>>]

\* The inner loop from position i of one batch; run is everything done so far.
RECURSIVE processBatchItems(_, _, _, _, _, _, _)
processBatchItems(batch, batchIndex, batchSize, i, failing, total, run) ==
    IF i < Len(batch)
    THEN LET globalIndex == (batchIndex * batchSize) + i
             item == batch[i + 1]
             outcome == processor(failing, item, globalIndex)
             totalProcessed == run.totalProcessed + 1
         IN processBatchItems(batch, batchIndex, batchSize, i + 1, failing, total,
               [run EXCEPT
                  !.calls = Append(@, <<item, globalIndex>>),
                  !.results = IF outcome.ok THEN Append(@, outcome.value) ELSE @,
                  !.batchResults = IF outcome.ok THEN Append(@, outcome.value) ELSE @,
                  !.errors = IF outcome.ok THEN @
                             ELSE Append(@, [index |-> globalIndex, item |-> item,
                                             error |-> outcome.error]),
                  !.totalProcessed = totalProcessed,
                  !.progress = Append(@, <<totalProcessed, total>>)])
    ELSE run

\* The outer loop from batch batchIndex.
RECURSIVE processBatches(_, _, _, _, _, _, _)
processBatches(batches, batchIndex, batchSize, delayMs, failing, total, run) ==
    IF batchIndex < Len(batches)
    THEN LET done == processBatchItems(batches[batchIndex + 1], batchIndex, batchSize, 0,
                                       failing, total, [run EXCEPT !.batchResults = <<>>])
             completed == [done EXCEPT
                             !.batchCompletes = Append(@, <<batchIndex, done.batchResults>>),
                             !.delays = IF batchIndex < Len(batches) - 1 /\ delayMs > 0
                                        THEN Append(@, delayMs) ELSE @]
         IN processBatches(batches, batchIndex + 1, batchSize, delayMs, failing, total,
                           completed)
    ELSE run

\* What processBatch returns (ret) and the calls it made on the way.
processBatch(items, failing, batchSize, delayMs) ==
    LET run == processBatches(createBatches(items, batchSize), 0, batchSize, delayMs, failing,
                              Len(items),
                              [calls |-> <<>>, results |-> <<>>, batchResults |-> <<>>,
                               errors |-> <<>>, totalProcessed |-> 0, progress |-> <<>>,
                               batchCompletes |-> <<>>, delays |-> <<>>])
    IN [ret |-> [results |-> run.results,
                 errors |-> run.errors,
                 totalProcessed |-> run.totalProcessed,
                 successCount |-> Len(run.results),
                 failureCount |-> Len(run.errors)],
        calls |-> run.calls,
        progress |-> run.progress,
        batchCompletes |-> run.batchCompletes,
        delays |-> run.delays]

BatchItems == {"a", "b"}

\* The caller adds an item; the processor will resolve or reject on it.
AddItem(item, rejects) ==
    /\ batchRun = None
    /\ Len(batchInput.items) < MaxItems
    /\ batchInput' = [items |-> Append(batchInput.items, item),
                      failing |-> IF rejects
                                  THEN batchInput.failing \cup {Len(batchInput.items)}
                                  ELSE batchInput.failing]
    /\ UNCHANGED <<batchRun, nonBatchVars>>

CallProcessBatch(batchSize, delayMs) ==
    /\ batchRun = None
    /\ batchRun' = Some([batchSize |-> batchSize, delayMs |-> delayMs,
                         did |-> processBatch(batchInput.items, batchInput.failing,
                                              batchSize, delayMs)])
    /\ UNCHANGED <<batchInput, nonBatchVars>>

NewBatch ==
    /\ batchRun # None
    /\ batchInput' = [items |-> <<>>, failing |-> {}]
    /\ batchRun' = None
    /\ UNCHANGED nonBatchVars

InitBatch == ReduceIdle /\ ScoreIdle /\ PrioIdle /\ WalletIdle /\ OthersIdle

NextBatch ==
    \/ \E item \in BatchItems, rejects \in BOOLEAN : AddItem(item, rejects)
    \/ \E batchSize \in 1..MaxBatchSize, delayMs \in {0, DEFAULT_DELAY_MS} :
          CallProcessBatch(batchSize, delayMs)
    \/ NewBatch

SpecBatch == InitBatch /\ [][NextBatch]_vars

----------------------------------------------------------------------------
(* utils/validation.ts: retryWithBackoff.  pc is the position of the call:   *)
(* "calling" while fn() is awaited, "waiting" while delay() is awaited.      *)

RECURSIVE MathPow2(_)
MathPow2(n) == IF n = 0 THEN 1 ELSE 2 * MathPow2(n - 1)

\* What fn may throw: an Error, or a value that is not an Error.
Thrown == { [isError |-> TRUE, message |-> "persistent error"],
            [isError |-> FALSE, message |-> "rate limited"] }

\* error instanceof Error ? error : new Error(String(error))
toError(error) == [isError |-> TRUE, message |-> error.message]

\* A variant of the loop test that stops one attempt early.
loopTest_exclusive(r) ==
    IF r.attempt < r.maxRetries
    THEN [r EXCEPT !.pc = "calling"]
    ELSE [r EXCEPT !.pc = "rejected"]

\* The test of the for loop: fn() is called next, or lastError is thrown.
loopTest(r) ==
    IF r.attempt <= r.maxRetries
    THEN [r EXCEPT !.pc = "calling"]
    ELSE [r EXCEPT !.pc = "rejected"]

CallRetryWithBackoff(maxRetries, baseDelayMs) ==
    /\ retry.pc = "idle"
    /\ retry' = loopTest([pc |-> "idle", maxRetries |-> maxRetries, baseDelayMs |-> baseDelayMs,
                          attempt |-> 0, lastError |-> None, value |-> None,
                          events |-> <<>>])
    /\ UNCHANGED nonRetryVars

\* fn() resolves: retryWithBackoff returns its value.
FnResolves(value) ==
    /\ retry.pc = "calling"
    /\ retry' = [retry EXCEPT !.pc = "resolved",
                              !.value = Some(value),
                              !.events = Append(@, [kind |-> "fn", ok |-> TRUE,
                                                    payload |-> <<value>>])]
    /\ UNCHANGED nonRetryVars

\* fn() rejects: the error is kept, and a delay or the next loop test follows.
FnRejects(error) ==
    /\ retry.pc = "calling"
    /\ LET caught == [retry EXCEPT !.lastError = Some(toError(error)),
                                   !.events = Append(@, [kind |-> "fn", ok |-> FALSE,
                                                         payload |-> <<error.message>>])]
       IN retry' = IF caught.attempt < caught.maxRetries
                   THEN [caught EXCEPT !.pc = "waiting"]
                   ELSE loopTest([caught EXCEPT !.attempt = @ + 1])
    /\ UNCHANGED nonRetryVars

\* delay(baseDelayMs * Math.pow(2, attempt)) elapses.
DelayElapses ==
    /\ retry.pc = "waiting"
    /\ LET delayTime == retry.baseDelayMs * MathPow2(retry.attempt)
       IN retry' = loopTest([retry EXCEPT
                               !.events = Append(@, [kind |-> "delay", ok |-> TRUE,
                                                     payload |-> <<delayTime>>]),
                               !.attempt = @ + 1])
    /\ UNCHANGED nonRetryVars

\* The caller is done with the settled promise.
RetrySettled ==
    /\ retry.pc \in {"resolved", "rejected"}
    /\ retry' = [pc |-> "idle"]
    /\ UNCHANGED nonRetryVars

InitRetry == ReduceIdle /\ ScoreIdle /\ PrioIdle /\ WalletIdle /\ OthersIdle

NextRetry ==
    \/ \E maxRetries \in 0..MaxRetries, baseDelayMs \in {10, 100, 1000} :
          CallRetryWithBackoff(maxRetries, baseDelayMs)
    \/ \E value \in {"success", "metadata"} : FnResolves(value)
    \/ \E error \in Thrown : FnRejects(error)
    \/ DelayElapses
    \/ RetrySettled

SpecRetry == InitRetry /\ [][NextRetry]_vars

----------------------------------------------------------------------------
(* scanner.ts: the approval cache around scanApprovals.  A scan that misses  *)
(* the cache awaits the chain, so other calls may run before it settles.     *)

Minute == 60 * 1000
CACHE_TTL_MS == (5 * 60) * 1000

WalletSpellings == {"0xaa", "0xAA"}
FromBlocks == {None, Some(1)}

\* The batch size scanApprovals hands to batchProcess.
SCAN_BATCH_SIZE == 100

\* What getLogs may return for a wallet: nothing, an approval, or the approval
\* and its later revocation.
FetchedLogs ==
    { <<>>,
      <<RawLog("0xaa", "0xcc", 100, 1)>>,
      <<RawLog("0xaa", "0xcc", 100, 1), RawLog("0xaa", "0xcc", 0, 2)>> }

\* One call of onProgress.
ScanProgress(phase, current, total) == [phase |-> phase, current |-> current, total |-> total]

\* batchProcess(items, processor, {batchSize, onBatchComplete}): the calls of
\* onBatchComplete(completed, total), one after each batch.
RECURSIVE batchProcess(_, _, _)
batchProcess(total, batchSize, completed) ==
    IF completed < total
    THEN LET done == Min(completed + batchSize, total)
         IN <<ScanProgress("processing", done, total)>> \o batchProcess(total, batchSize, done)
    ELSE <<>>

\* What onProgress receives on a cache hit.
progressOnCacheHit(cached) == <<ScanProgress("complete", Len(cached), Len(cached))>>

\* What onProgress receives before the chain is asked.
progressBeforeFetch == <<ScanProgress("scanning", 0, 0)>>

\* A variant that reports the completion before the batches.
progressAfterFetch_completeFirst(fetchedLogs, activeApprovals) ==
    <<ScanProgress("processing", 0, Len(fetchedLogs)),
      ScanProgress("complete", Len(activeApprovals), Len(activeApprovals))>>
    \o batchProcess(Len(fetchedLogs), SCAN_BATCH_SIZE, 0)

\* What onProgress receives once the logs are there.
progressAfterFetch(fetchedLogs, activeApprovals) ==
    <<ScanProgress("processing", 0, Len(fetchedLogs))>>
    \o batchProcess(Len(fetchedLogs), SCAN_BATCH_SIZE, 0)
    \o <<ScanProgress("complete", Len(activeApprovals), Len(activeApprovals))>>

\* `${walletAddress.toLowerCase()}-${fromBlock?.toString() || '0'}`
getCacheKey(walletAddress, fromBlock) ==
    <<toLowerCase(walletAddress),
      IF fromBlock = None THEN bigintToString(0) ELSE bigintToString(fromBlock[1])>>

MapDelete(m, k) == SelectSeq(m, LAMBDA e : e.key # k)

\* The cache after the lookup (an expired entry is deleted) and what it returns.
getCachedApprovals(cache, walletAddress, fromBlock, dateNow) ==
    LET key == getCacheKey(walletAddress, fromBlock)
        entry == MapGet(cache, key)
    IN IF entry = None
       THEN [cache |-> cache, approvals |-> None]
       ELSE IF dateNow - entry[1].timestamp > CACHE_TTL_MS
            THEN [cache |-> MapDelete(cache, key), approvals |-> None]
            ELSE [cache |-> cache, approvals |-> Some(entry[1].approvals)]

setCachedApprovals(cache, walletAddress, approvals, blockNumber, fromBlock, dateNow) ==
    MapSet(cache, getCacheKey(walletAddress, fromBlock),
           [approvals |-> approvals, timestamp |-> dateNow, blockNumber |-> blockNumber])

\* config.scanBlockRange: how far back a scan without fromBlock reaches.
scanBlockRange == 2

\* fromBlock || currentBlock - BigInt(config.scanBlockRange)
startBlock(fromBlock, currentBlock) ==
    IF fromBlock # None /\ fromBlock[1] # 0 THEN fromBlock[1] ELSE currentBlock - scanBlockRange

\* toBlock || currentBlock
endBlock(toBlock, currentBlock) ==
    IF toBlock # None /\ toBlock[1] # 0 THEN toBlock[1] ELSE currentBlock

\* The number of the last call or settlement so far.
lastEvent(calls) ==
    LET numbers == { calls[i].started : i \in 1..Len(calls) } \cup
                   { calls[i].settled[1] : i \in { j \in 1..Len(calls) : calls[j].settled # None } }
    IN IF numbers = {} THEN 0 ELSE CHOOSE n \in numbers : \A k \in numbers : k <= n

\* The scans that await the chain.
inFlight(calls) == { i \in 1..Len(calls) : calls[i].pc = "fetching" }

\* scanApprovals up to its first await: the cache lookup, and on a hit the return.
CallScanApprovals(walletAddress, fromBlock, toBlock, useCache) ==
    /\ Len(cacheCalls) < MaxCalls
    /\ Cardinality(inFlight(cacheCalls)) < MaxInFlight
    /\ LET looked == IF useCache
                     THEN getCachedApprovals(approvalCache, walletAddress, fromBlock, clock)
                     ELSE [cache |-> approvalCache, approvals |-> None]
           hit == looked.approvals # None
           number == lastEvent(cacheCalls) + 1
       IN /\ approvalCache' = looked.cache
          /\ cacheCalls' = Append(cacheCalls,
                [kind |-> "scanApprovals", walletAddress |-> walletAddress,
                 fromBlock |-> fromBlock, toBlock |-> toBlock, useCache |-> useCache,
                 range |-> None,
                 pc |-> IF hit THEN "resolved" ELSE "fetching",
                 readCache |-> useCache, wroteCache |-> FALSE, fetched |-> ~hit,
                 ret |-> looked.approvals,
                 progress |-> IF hit THEN progressOnCacheHit(looked.approvals[1])
                              ELSE progressBeforeFetch,
                 started |-> number, startedAt |-> clock,
                 settled |-> IF hit THEN Some(number) ELSE None,
                 settledAt |-> IF hit THEN Some(clock) ELSE None])
    /\ UNCHANGED <<clock, nonCacheVars>>

\* The chain has answered scan i: parse, deduplicate, filter, cache, return.
LogsFetched(i, fetchedLogs, currentBlock) ==
    /\ i \in 1..Len(cacheCalls)
    /\ cacheCalls[i].pc = "fetching"
    /\ LET scan == cacheCalls[i]
           latestApprovals == deduplicateApprovals(parseAll(fetchedLogs))
           activeApprovals == SelectSeq(latestApprovals, isActive)
       IN /\ approvalCache' =
                IF scan.useCache
                THEN setCachedApprovals(approvalCache, scan.walletAddress, activeApprovals,
                                        currentBlock, scan.fromBlock, clock)
                ELSE approvalCache
          /\ cacheCalls' = [cacheCalls EXCEPT ![i] =
                [scan EXCEPT !.pc = "resolved",
                             !.range = Some(<<startBlock(scan.fromBlock, currentBlock),
                                              endBlock(scan.toBlock, currentBlock)>>),
                             !.wroteCache = scan.useCache,
                             !.ret = Some(activeApprovals),
                             !.progress = @ \o progressAfterFetch(fetchedLogs, activeApprovals),
                             !.settled = Some(lastEvent(cacheCalls) + 1),
                             !.settledAt = Some(clock)]]
    /\ UNCHANGED <<clock, nonCacheVars>>

\* getBlockNumber rejects or fetchLogsWithRetry gives up: scan i rejects.
FetchFails(i) ==
    /\ i \in 1..Len(cacheCalls)
    /\ cacheCalls[i].pc = "fetching"
    /\ cacheCalls' = [cacheCalls EXCEPT ![i] =
          [@ EXCEPT !.pc = "rejected",
                    !.settled = Some(lastEvent(cacheCalls) + 1),
                    !.settledAt = Some(clock)]]
    /\ UNCHANGED <<approvalCache, clock, nonCacheVars>>

clearApprovalCache ==
    /\ Len(cacheCalls) < MaxCalls
    /\ approvalCache' = <<>>
    /\ LET number == lastEvent(cacheCalls) + 1
       IN cacheCalls' = Append(cacheCalls,
             [kind |-> "clearApprovalCache", walletAddress |-> "", fromBlock |-> None,
              toBlock |-> None, useCache |-> FALSE, range |-> None, pc |-> "resolved",
              readCache |-> FALSE, wroteCache |-> TRUE, fetched |-> FALSE,
              ret |-> None, progress |-> <<>>,
              started |-> number, startedAt |-> clock,
              settled |-> Some(number), settledAt |-> Some(clock)])
    /\ UNCHANGED <<clock, nonCacheVars>>

\* The wall clock moves on between two steps of the program.
TimePasses(elapsed) ==
    /\ clock + elapsed <= MaxMinutes * Minute
    /\ clock' = clock + elapsed
    /\ UNCHANGED <<approvalCache, cacheCalls, nonCacheVars>>

InitCache == ReduceIdle /\ ScoreIdle /\ PrioIdle /\ WalletIdle /\ OthersIdle

NextCache ==
    \/ \E walletAddress \in WalletSpellings, fromBlock \in FromBlocks, useCache \in BOOLEAN :
          CallScanApprovals(walletAddress, fromBlock, None, useCache)
    \/ \E i \in 1..MaxCalls, fetchedLogs \in FetchedLogs : LogsFetched(i, fetchedLogs, MaxBlock)
    \/ \E i \in 1..MaxCalls : FetchFails(i)
    \/ clearApprovalCache
    \/ \E elapsed \in {CACHE_TTL_MS, CACHE_TTL_MS + Minute} : TimePasses(elapsed)

SpecCache == InitCache /\ [][NextCache]_vars

\* The calls of one caller who scans one wallet from the default block.
NextProgress ==
    \/ \E useCache \in BOOLEAN : CallScanApprovals("0xaa", None, None, useCache)
    \/ \E i \in 1..MaxCalls, fetchedLogs \in FetchedLogs : LogsFetched(i, fetchedLogs, MaxBlock)
    \/ \E i \in 1..MaxCalls : FetchFails(i)
    \/ clearApprovalCache
    \/ TimePasses(CACHE_TTL_MS + Minute)

SpecProgress == InitCache /\ [][NextProgress]_vars

\* The chain as the scans of block ranges see it: it grows by a block a minute,
\* and holds an approval in its first block and the revocation of it in the
\* block five minutes later.
chainHead(dateNow) == 1 + dateNow \div Minute

ChainLogs == <<RawLog("0xaa", "0xcc", 100, 1), RawLog("0xaa", "0xcc", 0, 6)>>

ToBlocks == {None, Some(1), Some(6)}

\* client.getLogs({fromBlock, toBlock}) at the given head of the chain.
getLogs(chain, fromBlock, toBlock, head) ==
    SelectSeq(chain, LAMBDA log : /\ fromBlock <= log.blockNumber[1]
                                  /\ log.blockNumber[1] <= toBlock
                                  /\ log.blockNumber[1] <= head)

\* The chain answers scan i with the logs of the range the scan asked for.
ChainAnswers(i) ==
    /\ i \in inFlight(cacheCalls)
    /\ LET currentBlock == chainHead(clock)
       IN LogsFetched(i, getLogs(ChainLogs,
                                 startBlock(cacheCalls[i].fromBlock, currentBlock),
                                 endBlock(cacheCalls[i].toBlock, currentBlock),
                                 currentBlock),
                      currentBlock)

\* The scans of one wallet over block ranges of that chain.
NextRange ==
    \/ \E fromBlock \in FromBlocks, toBlock \in ToBlocks, useCache \in BOOLEAN :
          CallScanApprovals("0xaa", fromBlock, toBlock, useCache)
    \/ \E i \in 1..MaxCalls : ChainAnswers(i)
    \/ \E i \in 1..MaxCalls : FetchFails(i)
    \/ clearApprovalCache
    \/ \E elapsed \in {CACHE_TTL_MS, CACHE_TTL_MS + Minute} : TimePasses(elapsed)

SpecRange == InitCache /\ [][NextRange]_vars

----------------------------------------------------------------------------
(* services/token-metadata-service.ts: TokenMetadataService.  A chain read   *)
(* is a promise that resolves with a value (Some) or rejects (None).         *)

USDT == "0xdac17f958d2ee523a2206206994597c13d831ec7"

KNOWN_TOKENS ==
    <<[key |-> USDT,
       val |-> [name |-> Some("Tether USD"), symbol |-> Some("USDT"), decimals |-> Some(6),
                verified |-> Some(TRUE)]]>>

TokenAddresses == {"0xaa", "0xAA", "0xbb", USDT}

\* What readContract settles with for name, symbol, decimals and totalSupply.
ChainReads ==
    { [name |-> Some("Token"), symbol |-> Some("TKN"), decimals |-> Some(6),
       totalSupply |-> Some(1000)],
      [name |-> Some("Token"), symbol |-> None, decimals |-> Some(6),
       totalSupply |-> None],
      [name |-> None, symbol |-> None, decimals |-> None, totalSupply |-> None] }

\* promise.catch(() => fallback)
catch(settled, fallback) == IF settled = None THEN fallback ELSE settled[1]

\* [...new Set(tokenAddresses)]: the first occurrence of each string, in order.
RECURSIVE unique(_)
unique(inputs) ==
    IF inputs = <<>> THEN <<>>
    ELSE LET front == unique(SubSeq(inputs, 1, Len(inputs) - 1))
             last == inputs[Len(inputs)]
         IN IF \E i \in 1..Len(front) : front[i].address = last.address
            THEN front ELSE Append(front, last)

\* A variant that lets a failed read of the decimals through as 0.
fetchTokenMetadata_zeroDecimals(tokenAddress, reads) ==
    [address |-> tokenAddress,
     name |-> catch(reads.name, "Unknown Token"),
     symbol |-> catch(reads.symbol, "UNKNOWN"),
     decimals |-> catch(reads.decimals, 0),
     totalSupply |-> reads.totalSupply,
     verified |-> Some(FALSE)]

\* The metadata fetchTokenMetadata builds from the four reads.
fetchTokenMetadata(tokenAddress, reads) ==
    [address |-> tokenAddress,
     name |-> catch(reads.name, "Unknown Token"),
     symbol |-> catch(reads.symbol, "UNKNOWN"),
     decimals |-> catch(reads.decimals, 18),
     totalSupply |-> reads.totalSupply,
     verified |-> Some(FALSE)]

\* getTokenMetadata up to its return or its first await: the metadata cache
\* afterwards, and the metadata unless the chain has to be read.
lookupTokenMetadata(cache, tokenAddress) ==
    LET normalizedAddress == toLowerCase(tokenAddress)
        cached == MapGet(cache, normalizedAddress)
        known == MapGet(KNOWN_TOKENS, normalizedAddress)
    IN IF cached # None
       THEN [cache |-> cache, metadata |-> cached]
       ELSE IF known # None /\ known[1].name # None /\ known[1].symbol # None
                            /\ known[1].decimals # None
            THEN LET metadata == [address |-> tokenAddress,
                                  name |-> known[1].name[1],
                                  symbol |-> known[1].symbol[1],
                                  decimals |-> known[1].decimals[1],
                                  totalSupply |-> None,
                                  verified |-> known[1].verified]
                 IN [cache |-> MapSet(cache, normalizedAddress, metadata),
                     metadata |-> Some(metadata)]
            ELSE [cache |-> cache, metadata |-> None]

\* The synchronous part of uniqueAddresses.map(...): every lookup runs before
\* any chain read settles.
RECURSIVE lookupAll(_, _)
lookupAll(cache, inputs) ==
    IF inputs = <<>> THEN [cache |-> cache, looked |-> <<>>]
    ELSE LET front == lookupAll(cache, SubSeq(inputs, 1, Len(inputs) - 1))
             input == inputs[Len(inputs)]
             found == lookupTokenMetadata(front.cache, input.address)
         IN [cache |-> found.cache,
             looked |-> Append(front.looked,
                               [address |-> input.address, reads |-> input.reads,
                                metadata |-> found.metadata])]

\* The reads settle: each fetched metadata is stored and returned.
RECURSIVE settleAll(_, _)
settleAll(cache, looked) ==
    IF looked = <<>> THEN [cache |-> cache, resolved |-> <<>>]
    ELSE LET front == settleAll(cache, SubSeq(looked, 1, Len(looked) - 1))
             item == looked[Len(looked)]
         IN IF item.metadata # None
            THEN [cache |-> front.cache,
                  resolved |-> Append(front.resolved,
                                      [address |-> item.address, fetched |-> FALSE,
                                       metadata |-> item.metadata[1]])]
            ELSE LET metadata == fetchTokenMetadata(item.address, item.reads)
                 IN [cache |-> MapSet(front.cache, toLowerCase(item.address), metadata),
                     resolved |-> Append(front.resolved,
                                         [address |-> item.address, fetched |-> TRUE,
                                          metadata |-> metadata])]

\* results.set(address, metadata) for each resolved pair.
RECURSIVE resultsMap(_)
resultsMap(resolved) ==
    IF resolved = <<>> THEN <<>>
    ELSE MapSet(resultsMap(SubSeq(resolved, 1, Len(resolved) - 1)),
                resolved[Len(resolved)].address, resolved[Len(resolved)].metadata)

\* The caller adds a token address; reads is what the chain answers for it.
AddToken(address, reads) ==
    /\ metaCall = None
    /\ Len(tokenInput) < MaxTokens
    /\ tokenInput' = Append(tokenInput, [address |-> address, reads |-> reads])
    /\ UNCHANGED <<metadataCache, metaCall, nonMetaVars>>

getMultipleTokenMetadata ==
    /\ metaCall = None
    /\ LET looked == lookupAll(metadataCache, unique(tokenInput))
           settled == settleAll(looked.cache, looked.looked)
       IN /\ metadataCache' = settled.cache
          /\ metaCall' = Some([fn |-> "getMultipleTokenMetadata", pc |-> "resolved",
                               resolved |-> settled.resolved,
                               results |-> resultsMap(settled.resolved)])
    /\ UNCHANGED <<tokenInput, nonMetaVars>>

getTokenMetadata ==
    /\ metaCall = None
    /\ Len(tokenInput) = 1
    /\ LET looked == lookupAll(metadataCache, tokenInput)
           settled == settleAll(looked.cache, looked.looked)
       IN /\ metadataCache' = settled.cache
          /\ metaCall' = Some([fn |-> "getTokenMetadata", pc |-> "resolved",
                               resolved |-> settled.resolved,
                               results |-> resultsMap(settled.resolved)])
    /\ UNCHANGED <<tokenInput, nonMetaVars>>

clearCache ==
    /\ metaCall = None
    /\ metadataCache # <<>>
    /\ metadataCache' = <<>>
    /\ UNCHANGED <<tokenInput, metaCall, nonMetaVars>>

\* The caller is done with the result and prepares another call.
NewTokens ==
    /\ metaCall # None
    /\ tokenInput' = <<>>
    /\ metaCall' = None
    /\ UNCHANGED <<metadataCache, nonMetaVars>>

InitMeta == ReduceIdle /\ ScoreIdle /\ PrioIdle /\ WalletIdle /\ OthersIdle

NextMeta ==
    \/ \E address \in TokenAddresses, reads \in ChainReads : AddToken(address, reads)
    \/ getMultipleTokenMetadata
    \/ getTokenMetadata
    \/ clearCache
    \/ NewTokens

SpecMeta == InitMeta /\ [][NextMeta]_vars

----------------------------------------------------------------------------
(* cache/approval-cache.ts: ApprovalCache.  The hits and misses counters     *)
(* feed getStats only and are left out.                                      *)

DEFAULT_CACHE_OPTIONS_ttl == (5 * 60) * 1000

\* The (walletAddress, chainId) arguments callers pass: two spellings of one
\* wallet, the same wallet on another chain, and another wallet.
CacheQueries == { <<"0xaa", 1>>, <<"0xAA", 1>>, <<"0xaa", 137>>, <<"0xbb", 1>> }

\* What a caller stores: the approvals and the block number they were read at.
CachedData ==
    { [approvals |-> <<>>, blockNumber |-> 1],
      [approvals |-> <<"0xcc">>, blockNumber |-> 2] }

\* `${walletAddress.toLowerCase()}-${chainId}`
generateKey(walletAddress, chainId) == <<toLowerCase(walletAddress), chainId>>

\* entries.sort((a, b) => a[1].timestamp - b[1].timestamp), which is stable.
insertEntry(sorted, e) ==
    LET n == Cardinality({ i \in 1..Len(sorted) : sorted[i].val.timestamp - e.val.timestamp <= 0 })
    IN SubSeq(sorted, 1, n) \o <<e>> \o SubSeq(sorted, n + 1, Len(sorted))

RECURSIVE sortEntries(_)
sortEntries(entries) ==
    IF entries = <<>> THEN <<>>
    ELSE insertEntry(sortEntries(SubSeq(entries, 1, Len(entries) - 1)), entries[Len(entries)])

RECURSIVE deleteAll(_, _)
deleteAll(cache, toRemove) ==
    IF toRemove = <<>> THEN cache
    ELSE deleteAll(MapDelete(cache, toRemove[1].key), Tail(toRemove))

\* A variant that removes the newest entries.
enforceMaxSize_newestFirst(cache, maxSize) ==
    IF Len(cache) <= maxSize THEN cache
    ELSE LET entries == sortEntries(cache)
         IN deleteAll(cache, SubSeq(entries, maxSize + 1, Len(entries)))

enforceMaxSize(cache, maxSize) ==
    IF Len(cache) <= maxSize THEN cache
    ELSE LET entries == sortEntries(cache)
             toRemove == slice(entries, 0, Len(cache) - maxSize)
         IN deleteAll(cache, toRemove)

\* A variant that keeps an entry until after its expiry time.
isExpired_late(entry, dateNow) == entry.expiresAt < dateNow

isExpired(entry, dateNow) == entry.expiresAt <= dateNow

cleanupEntries(cache, dateNow) == SelectSeq(cache, LAMBDA e : ~isExpired(e.val, dateNow))

\* new ApprovalCache(options)
NewApprovalCache(maxSize) ==
    /\ storeOptions = None
    /\ storeOptions' = Some([ttl |-> DEFAULT_CACHE_OPTIONS_ttl, maxSize |-> maxSize])
    /\ UNCHANGED <<store, storeNow, lastSet, storeOp, nonStoreVars>>

ApprovalCache_get(walletAddress, chainId) ==
    /\ storeOptions # None
    /\ LET key == generateKey(walletAddress, chainId)
           entry == MapGet(store, key)
           expired == entry # None /\ isExpired(entry[1], storeNow)
       IN /\ store' = IF expired THEN MapDelete(store, key) ELSE store
          /\ storeOp' = Some([fn |-> "get", walletAddress |-> walletAddress,
                              chainId |-> chainId, before |-> store, at |-> storeNow,
                              ret |-> IF entry = None \/ expired THEN None
                                      ELSE Some(entry[1].data)])
    /\ UNCHANGED <<storeOptions, storeNow, lastSet, nonStoreVars>>

ApprovalCache_set(walletAddress, chainId, data) ==
    /\ storeOptions # None
    /\ LET key == generateKey(walletAddress, chainId)
           entry == [data |-> [approvals |-> data.approvals,
                               walletAddress |-> toLowerCase(walletAddress),
                               chainId |-> chainId,
                               blockNumber |-> data.blockNumber],
                     timestamp |-> storeNow,
                     expiresAt |-> storeNow + storeOptions[1].ttl]
       IN /\ store' = enforceMaxSize(MapSet(store, key, entry), storeOptions[1].maxSize)
          /\ lastSet' = [k \in (DOMAIN lastSet) \cup {key} |-> IF k = key THEN data ELSE lastSet[k]]
          /\ storeOp' = Some([fn |-> "set", walletAddress |-> walletAddress,
                              chainId |-> chainId, before |-> store, at |-> storeNow, ret |-> None])
    /\ UNCHANGED <<storeOptions, storeNow, nonStoreVars>>

ApprovalCache_has(walletAddress, chainId) ==
    /\ storeOptions # None
    /\ LET key == generateKey(walletAddress, chainId)
           entry == MapGet(store, key)
           expired == entry # None /\ isExpired(entry[1], storeNow)
       IN /\ store' = IF expired THEN MapDelete(store, key) ELSE store
          /\ storeOp' = Some([fn |-> "has", walletAddress |-> walletAddress,
                              chainId |-> chainId, before |-> store, at |-> storeNow,
                              ret |-> Some(entry # None /\ ~expired)])
    /\ UNCHANGED <<storeOptions, storeNow, lastSet, nonStoreVars>>

invalidate(walletAddress, chainId) ==
    /\ storeOptions # None
    /\ LET key == generateKey(walletAddress, chainId)
       IN /\ store' = MapDelete(store, key)
          /\ storeOp' = Some([fn |-> "invalidate", walletAddress |-> walletAddress,
                              chainId |-> chainId, before |-> store, at |-> storeNow,
                              ret |-> Some(MapHas(store, key))])
    /\ UNCHANGED <<storeOptions, storeNow, lastSet, nonStoreVars>>

invalidateAll ==
    /\ storeOptions # None
    /\ store # <<>>
    /\ store' = <<>>
    /\ storeOp' = Some([fn |-> "invalidateAll", walletAddress |-> "", chainId |-> 0,
                        before |-> store, at |-> storeNow, ret |-> None])
    /\ UNCHANGED <<storeOptions, storeNow, lastSet, nonStoreVars>>

\* The cleanup timer fires.
cleanup ==
    /\ storeOptions # None
    /\ store' = cleanupEntries(store, storeNow)
    /\ storeOp' = Some([fn |-> "cleanup", walletAddress |-> "", chainId |-> 0,
                        before |-> store, at |-> storeNow, ret |-> None])
    /\ UNCHANGED <<storeOptions, storeNow, lastSet, nonStoreVars>>

StoreTimePasses(elapsed) ==
    /\ storeNow + elapsed <= MaxMinutes * Minute
    /\ storeNow' = storeNow + elapsed
    /\ UNCHANGED <<store, storeOptions, lastSet, storeOp, nonStoreVars>>

InitStore == ReduceIdle /\ ScoreIdle /\ PrioIdle /\ WalletIdle /\ OthersIdle

NextStore ==
    \/ \E maxSize \in 1..MaxSize : NewApprovalCache(maxSize)
    \/ \E q \in CacheQueries :
          \/ ApprovalCache_get(q[1], q[2])
          \/ ApprovalCache_has(q[1], q[2])
          \/ invalidate(q[1], q[2])
          \/ \E data \in CachedData : ApprovalCache_set(q[1], q[2], data)
    \/ invalidateAll
    \/ cleanup
    \/ StoreTimePasses(DEFAULT_CACHE_OPTIONS_ttl \div 2)

SpecStore == InitStore /\ [][NextStore]_vars

-----------------------------------------------------------------------------
(* RiskScorer.getAggregateRisk *)

MaxScores == 3

RiskLevels == {"low", "medium", "high", "critical"}

\* Overall scores on both sides of each threshold.
Overalls == {0, 20, 50, 85, 95}

\* A caller builds the RiskScore list itself; the level of a score is whatever
\* the caller recorded.
RiskScores == [overall : Overalls, level : RiskLevels, factors : {<<>>}]

getAggregateRisk(scores) ==
    IF Len(scores) = 0 THEN "low"
    ELSE LET maxScore == MaxOf([i \in 1..Len(scores) |-> scores[i].overall])
         IN calculateRiskLevel(maxScore)

AddRiskScore(score) ==
    /\ aggregate = None
    /\ Len(givenScores) < MaxScores
    /\ givenScores' = Append(givenScores, score)
    /\ UNCHANGED <<aggregate, nonAggregateVars>>

CallGetAggregateRisk ==
    /\ aggregate = None
    /\ aggregate' = Some(getAggregateRisk(givenScores))
    /\ UNCHANGED <<givenScores, nonAggregateVars>>

InitAggregate == ReduceIdle /\ ScoreIdle /\ PrioIdle /\ WalletIdle /\ OthersIdle

NextAggregate ==
    \/ \E score \in RiskScores : AddRiskScore(score)
    \/ CallGetAggregateRisk

SpecAggregate == InitAggregate /\ [][NextAggregate]_vars

-----------------------------------------------------------------------------
(* RiskScorer.scoreMultiple handed to RevocationService.generateRecommendations *)

MaxPairs == 2

\* Approvals under several spellings of their two addresses.
ScoredApprovals ==
    [tokenAddress : TokenSpellings,
     spenderAddress : {"0xcc", "0xCC"},
     value : {0, 100, MAX_UINT256},
     lastUsed : {None},
     spenderVerified : {TRUE}]

\* `${approval.tokenAddress}-${approval.spenderAddress}`
scoreKey(approval) == <<approval.tokenAddress, approval.spenderAddress>>

RECURSIVE scoreMultiple(_, _)
scoreMultiple(approvalList, dateNow) ==
    IF approvalList = <<>> THEN <<>>
    ELSE LET approval == approvalList[Len(approvalList)]
         IN MapSet(scoreMultiple(SubSeq(approvalList, 1, Len(approvalList) - 1), dateNow),
                   scoreKey(approval), scoreApproval(approval, dateNow))

\* The approvals for which the loop of generateRecommendations finds a score
\* and pushes a recommendation; sortByPriority reorders them and drops none.
recommendedApprovals(approvalList, scores) ==
    SelectSeq(approvalList, LAMBDA approval : MapGet(scores, getApprovalKey(approval)) # None)

AddScoredApproval(approval) ==
    /\ scoreMap = None
    /\ Len(scoredApprovals) < MaxPairs
    /\ scoredApprovals' = Append(scoredApprovals, approval)
    /\ UNCHANGED <<scoreMap, recommended, nonPipeVars>>

CallScoreMultiple ==
    /\ scoreMap = None
    /\ scoreMap' = Some(scoreMultiple(scoredApprovals, now))
    /\ UNCHANGED <<scoredApprovals, recommended, nonPipeVars>>

RecommendScored ==
    /\ scoreMap # None
    /\ recommended = None
    /\ recommended' = Some(recommendedApprovals(scoredApprovals, scoreMap[1]))
    /\ UNCHANGED <<scoredApprovals, scoreMap, nonPipeVars>>

InitPipe == ReduceIdle /\ ScoreIdle /\ PrioIdle /\ WalletIdle /\ OthersIdle

NextPipe ==
    \/ \E approval \in ScoredApprovals : AddScoredApproval(approval)
    \/ CallScoreMultiple
    \/ RecommendScored

SpecPipe == InitPipe /\ [][NextPipe]_vars

-----------------------------------------------------------------------------
(* history/history-tracker.ts: the block ranges of fetchApprovalEvents *)

BLOCKS_PER_QUERY == 10000
DEFAULT_HISTORY_BLOCKS == 100000

\* options.fromBlock and options.toBlock, on both sides of the multiples of
\* BLOCKS_PER_QUERY, and the head of the chain.
RangeBounds ==
    {None} \cup { Some(b) : b \in {0, 1, BLOCKS_PER_QUERY - 1, BLOCKS_PER_QUERY,
                                   BLOCKS_PER_QUERY + 1, 2 * BLOCKS_PER_QUERY,
                                   (3 * BLOCKS_PER_QUERY) - 1, 3 * BLOCKS_PER_QUERY} }
CurrentBlocks == {DEFAULT_HISTORY_BLOCKS, DEFAULT_HISTORY_BLOCKS + BLOCKS_PER_QUERY + 1}

\* A variant whose ranges share their boundary block.
rangeEnd_inclusiveStep(start, toBlock) ==
    IF start + BLOCKS_PER_QUERY > toBlock THEN toBlock ELSE start + BLOCKS_PER_QUERY

\* start + BLOCKS_PER_QUERY - 1n > toBlock ? toBlock : start + BLOCKS_PER_QUERY - 1n
rangeEnd(start, toBlock) ==
    IF (start + BLOCKS_PER_QUERY) - 1 > toBlock THEN toBlock ELSE (start + BLOCKS_PER_QUERY) - 1

\* fetchApprovalEvents up to the loop.
CallFetchApprovalEvents(fromBlock, toBlock, currentBlock) ==
    /\ rangePc = "idle"
    /\ rangeQuery' = Some([fromBlock |-> IF fromBlock = None
                                         THEN currentBlock - DEFAULT_HISTORY_BLOCKS
                                         ELSE fromBlock[1],
                           toBlock |-> IF toBlock = None THEN currentBlock ELSE toBlock[1]])
    /\ rangeStart' = rangeQuery'[1].fromBlock
    /\ rangesQueried' = <<>>
    /\ rangePc' = "loop"
    /\ UNCHANGED nonChunkVars

\* One turn of the loop: getLogs over [start, end] resolves.
QueryNextRange ==
    /\ rangePc = "loop"
    /\ rangeStart <= rangeQuery[1].toBlock
    /\ rangesQueried' = Append(rangesQueried,
                               [fromBlock |-> rangeStart,
                                toBlock |-> rangeEnd(rangeStart, rangeQuery[1].toBlock)])
    /\ rangeStart' = rangeStart + BLOCKS_PER_QUERY
    /\ UNCHANGED <<rangeQuery, rangePc, nonChunkVars>>

\* One turn of the loop: getLogs over [start, end] rejects, and so does
\* fetchApprovalEvents, with a NetworkError.
GetLogsRejects ==
    /\ rangePc = "loop"
    /\ rangeStart <= rangeQuery[1].toBlock
    /\ rangesQueried' = Append(rangesQueried,
                               [fromBlock |-> rangeStart,
                                toBlock |-> rangeEnd(rangeStart, rangeQuery[1].toBlock)])
    /\ rangePc' = "rejected"
    /\ UNCHANGED <<rangeQuery, rangeStart, nonChunkVars>>

\* start > toBlock: the loop ends and fetchApprovalEvents resolves.
LoopEnds ==
    /\ rangePc = "loop"
    /\ rangeStart > rangeQuery[1].toBlock
    /\ rangePc' = "resolved"
    /\ UNCHANGED <<rangeQuery, rangeStart, rangesQueried, nonChunkVars>>

\* The caller asks again.
NewRangeQuery ==
    /\ rangePc \in {"resolved", "rejected"}
    /\ rangeQuery' = None
    /\ rangeStart' = 0
    /\ rangesQueried' = <<>>
    /\ rangePc' = "idle"
    /\ UNCHANGED nonChunkVars

InitChunk == ReduceIdle /\ ScoreIdle /\ PrioIdle /\ WalletIdle /\ OthersIdle

NextChunk ==
    \/ \E fromBlock \in RangeBounds, toBlock \in RangeBounds, currentBlock \in CurrentBlocks :
          CallFetchApprovalEvents(fromBlock, toBlock, currentBlock)
    \/ QueryNextRange
    \/ GetLogsRejects
    \/ LoopEnds
    \/ NewRangeQuery

SpecChunk == InitChunk /\ [][NextChunk]_vars

\* Every awaited getLogs settles, and the loop goes on when it has.
SpecChunkFair == SpecChunk /\ WF_vars(QueryNextRange \/ GetLogsRejects \/ LoopEnds)

----------------------------------------------------------------------------
(* Properties of the reducers *)

Reducers == {"scanApprovals", "parseApprovalLogs", "fetchApprovals"}

\* What the delivered logs say, independently of any reducer.
logKey(log) == <<toLowerCase(log.address), toLowerCase(log.topics[3])>>
logKeys == { logKey(logs[j]) : j \in 1..Len(logs) }
logsOfKey(k) == { j \in 1..Len(logs) : logKey(logs[j]) = k }
maxBlockOfKey(k) ==
    CHOOSE b \in { logs[j].blockNumber[1] : j \in logsOfKey(k) } :
        \A j \in logsOfKey(k) : logs[j].blockNumber[1] <= b
topLogsOfKey(k) == { j \in logsOfKey(k) : logs[j].blockNumber[1] = maxBlockOfKey(k) }
lastTopLogOfKey(k) == CHOOSE j \in topLogsOfKey(k) : \A i \in topLogsOfKey(k) : i <= j
blocksDistinctInKeys ==
    \A i, j \in 1..Len(logs) :
        (i # j /\ logKey(logs[i]) = logKey(logs[j]))
            => logs[i].blockNumber[1] # logs[j].blockNumber[1]

\* The (token, spender) pair of an entry of the running operation, normalized.
entryKey(e) ==
    IF op = "fetchApprovals"
    THEN <<toLowerCase(e.tokenAddress), toLowerCase(e.spenderAddress)>>
    ELSE <<toLowerCase(e.tokenAddress), toLowerCase(e.spender)>>

\* The entry carries the block, transaction and (where it has one) amount of log j.
entryIsOfLog(e, j) ==
    /\ entryKey(e) = logKey(logs[j])
    /\ e.blockNumber = logs[j].blockNumber[1]
    /\ e.transactionHash = logs[j].transactionHash[1]
    /\ (op = "scanApprovals" => e.value = logs[j].data[1])
    /\ (op \in {"fetchApprovals", "getApprovals"}
          => BigInt(e.allowance) = logs[j].data[1])

entriesOfKey(k) == { i \in 1..Len(approvalMap) : entryKey(approvalMap[i]) = k }

reduceWith(o, ls) ==
    CASE o = "scanApprovals" -> deduplicateApprovals(parseAll(ls))
      [] o = "parseApprovalLogs" -> MapValues(parseApprovalLogsFold(ls))
      [] o = "fetchApprovals" -> MapValues(fetchApprovalsFold(ls))

Range(f) == { f[i] : i \in DOMAIN f }
permutationsOf(n) == { p \in [1..n -> 1..n] : Range(p) = 1..n }
permute(ls, p) == [i \in 1..Len(ls) |-> ls[p[i]]]

OneEntryPerKey ==
    /\ \A k \in logKeys : Cardinality(entriesOfKey(k)) = 1
    /\ \A i \in 1..Len(approvalMap) : entryKey(approvalMap[i]) \in logKeys

EntryOfTopLog ==
    \A i \in 1..Len(approvalMap) :
        \E j \in topLogsOfKey(entryKey(approvalMap[i])) : entryIsOfLog(approvalMap[i], j)

PermutationInvariant ==
    blocksDistinctInKeys =>
        \A p \in permutationsOf(Len(logs)) :
            Range(reduceWith(op, permute(logs, p))) = Range(approvalMap)

\* C1: every reducer returns exactly one entry per case-normalized
\* (token, spender) key, the entry is that of a log whose block number is
\* maximal in the key, and with pairwise distinct blocks inside each key the
\* reduced result is the same for every permutation of the input.
C1_ReductionCorrect ==
    op \in Reducers => (OneEntryPerKey /\ EntryOfTopLog /\ PermutationInvariant)

\* C2: when several logs of one key share the maximal block number, the
\* reduced entry is the one delivered last, in every reducer.
C2_LastAppliedWins ==
    op \in Reducers =>
        \A k \in logKeys :
            \A i \in entriesOfKey(k) : entryIsOfLog(approvalMap[i], lastTopLogOfKey(k))

DefaultModeOps == {"scanApprovals", "fetchApprovals", "getApprovals", "getApprovalsForWallet"}

resultKey(e) ==
    IF op = "fetchApprovals"
    THEN <<toLowerCase(e.tokenAddress), toLowerCase(e.spenderAddress)>>
    ELSE <<toLowerCase(e.tokenAddress), toLowerCase(e.spender)>>

resultAmount(e) == IF op = "scanApprovals" THEN e.value ELSE BigInt(e.allowance)

\* Every log of the key in its highest block carries amount 0.
revokedKey(k) == \A j \in topLogsOfKey(k) : logs[j].data[1] = 0

\* C3: a pair whose highest-block event has value 0 is absent from a scan in
\* default mode, and present with allowance 0 when the include-zero flag is set.
C3_ZeroFiltering ==
    op \in DefaultModeOps =>
        \A k \in logKeys :
            revokedKey(k) =>
                IF options.includeZero
                THEN \E i \in 1..Len(result) :
                        resultKey(result[i]) = k /\ resultAmount(result[i]) = 0
                ELSE \A i \in 1..Len(result) : resultKey(result[i]) # k


----------------------------------------------------------------------------
(* Properties of the history timelines *)

DefaultHistoryOptions ==
    [tokenAddresses |-> None, spenderAddresses |-> None, includeRevocations |-> None]

\* approve(100), revoke(0), approve(50) of one pair, one block after the other.
ApproveRevokeApprove ==
    <<RawLog("0xaa", "0xcc", 100, 1), RawLog("0xaa", "0xcc", 0, 2),
      RawLog("0xaa", "0xcc", 50, 3)>>

\* C4: the history of logs holding exactly approve(100), revoke(0),
\* approve(50) of one pair, built with default options, has one timeline with
\* currentAmount = 50 and changeCount = 3.
C4_ReapprovalAfterRevocation ==
    (/\ op = "getApprovalHistory"
     /\ options = DefaultHistoryOptions
     /\ logs = ApproveRevokeApprove)
        => /\ Len(approvalMap) = 1
           /\ approvalMap[1].currentAmount = 50
           /\ approvalMap[1].changeCount = 3

\* The input with every repeated delivery of a log removed (the first is kept).
RECURSIVE withoutDuplicates(_)
withoutDuplicates(ls) ==
    IF ls = <<>> THEN <<>>
    ELSE LET front == SubSeq(ls, 1, Len(ls) - 1)
         IN IF \E i \in 1..Len(front) : front[i] = ls[Len(ls)]
            THEN withoutDuplicates(front)
            ELSE Append(withoutDuplicates(front), ls[Len(ls)])

hasDuplicates == withoutDuplicates(logs) # logs

pairStates(timelines) ==
    { [tokenAddress |-> timelines[i].tokenAddress,
       spender |-> timelines[i].spender,
       currentAmount |-> timelines[i].currentAmount,
       changeCount |-> timelines[i].changeCount] : i \in 1..Len(timelines) }

\* C5: delivering the same event more than once changes neither the current
\* allowance nor the mutation count of its pair: both equal those obtained
\* from the input without the duplicates.
C5_DuplicateDeliveryIgnored ==
    /\ op = "getApprovalHistory" =>
          pairStates(approvalMap)
            = pairStates(buildTimelines(fetchApprovalEvents(withoutDuplicates(logs), options)))
    /\ op = "scanApprovals" =>
          Range(approvalMap)
            = Range(deduplicateApprovals(parseAll(withoutDuplicates(logs))))

----------------------------------------------------------------------------
(* Properties of the risk scoring *)

ScoredBy(fns) == call # None /\ call[1].fn \in fns

\* The numeric score of a result of the scoring function fn.
scoreOf(fn, ret) == IF fn = "RiskScorer.scoreApproval" THEN ret.overall ELSE ret.score

\* C6: of two prioApprovals that differ only in the time of last use and are
\* scored at the same instant, the one last used longer ago scores greater
\* than or equal to the other, in RiskScorer.scoreApproval and in
\* RiskCalculator.calculateApprovalRisk, whatever the other attributes are.
C6_MonotonicDormancy ==
    (/\ ScoredBy({"RiskScorer.scoreApproval", "RiskCalculator.calculateApprovalRisk"})
     /\ call[1].args.lastUsed # None)
    => \A older \in LastUsedChoices \ {None} :
          older[1] < call[1].args.lastUsed[1]
          => scoreOf(call[1].fn,
                     evaluate(call[1].fn, [call[1].args EXCEPT !.lastUsed = older], call[1].at))
               >= scoreOf(call[1].fn, call[1].ret)

factorNames(ret) == { ret.factors[i].name : i \in 1..Len(ret.factors) }

firedFactors(ret) == { ret.factors[i] : i \in 1..Len(ret.factors) }

\* C8: a level of critical is reached only when the unlimited factor fired
\* together with at least one other factor, in RiskScorer.scoreApproval and in
\* calculateApprovalRisk of the constants module: never below the unlimited
\* threshold, and never with the unlimited factor alone.
C8_CriticalNeedsUnlimitedAndMore ==
    /\ (ScoredBy({"RiskScorer.scoreApproval"}) /\ call[1].ret.level = "critical")
         => /\ "unlimited_approval" \in factorNames(call[1].ret)
            /\ Cardinality(factorNames(call[1].ret)) >= 2
    /\ (ScoredBy({"calculateApprovalRisk"}) /\ call[1].ret.level = "critical")
         => /\ "Unlimited approval amount" \in firedFactors(call[1].ret)
            /\ Cardinality(firedFactors(call[1].ret)) >= 2

\* C9: a scoring call repeated with identical arguments returns the identical
\* result, whenever the second call is made.
C9_ScoringDeterministic ==
    again # None => again[1].ret = call[1].ret

----------------------------------------------------------------------------
(* Properties of the prioritizer *)

\* Tier and priority score of an entry of either returned list.
entryUrgency(entry) ==
    IF prioOp = "getPrioritizedRevocations" THEN entry.recommendation.urgency ELSE entry.urgency

priorityScore(entry) ==
    IF prioOp = "getPrioritizedRevocations"
    THEN entry.priority
    ELSE calculatePriorityScore(entry)

\* The entries of the returned list in the order of the input prioApprovals.
inInputOrder ==
    LET created == createRecommendations(prioApprovals, riskScores, now)
    IN IF prioOp = "getPrioritizedRevocations"
       THEN LET toRevoke == SelectSeq(created, LAMBDA rec : rec.shouldRevoke)
            IN [i \in 1..Len(toRevoke) |-> toRevocationPriority(toRevoke[i])]
       ELSE created

sameKeys(a, b) ==
    entryUrgency(a) = entryUrgency(b) /\ priorityScore(a) = priorityScore(b)

\* C10: the returned list is ordered by urgency tier first (immediate, high,
\* medium, low), inside a tier by priorityScore descending, and entries equal
\* on both keys keep their input order.
C10_PrioritizerOrder ==
    prioOp # "none" =>
        /\ \A i, j \in 1..Len(prioritized) :
              i < j =>
                /\ urgencyOrder(entryUrgency(prioritized[i]))
                     <= urgencyOrder(entryUrgency(prioritized[j]))
                /\ entryUrgency(prioritized[i]) = entryUrgency(prioritized[j])
                     => priorityScore(prioritized[i]) >= priorityScore(prioritized[j])
        /\ \A i \in 1..Len(prioritized) :
              SelectSeq(prioritized, LAMBDA e : sameKeys(e, prioritized[i]))
                = SelectSeq(inInputOrder, LAMBDA e : sameKeys(e, prioritized[i]))

\* C11: a second run of generateRecommendations on the same approvals and the
\* same risk-score map returns the same entries in the same order with the
\* same value in every field.
C11_PrioritizerIdempotent ==
    prioAgain # None => prioAgain[1] = prioritized

shouldRevokeExpected(riskScore) ==
    \/ riskScore.level \in {"high", "critical"}
    \/ riskScore.level = "medium" /\ Len(riskScore.factors) >= 2

\* C12: shouldRevoke of a recommendation is true exactly when the level of its
\* risk score is high or critical, or the level is medium and the score has
\* at least two factors.
C12_ShouldRevokeRule ==
    prioOp = "generateRecommendations" =>
        /\ \A i \in 1..Len(prioritized) :
              prioritized[i].shouldRevoke = shouldRevokeExpected(prioritized[i].riskScore)
        /\ Len(prioritized) = Len(createRecommendations(prioApprovals, riskScores, now))

\* Recommendations were made for a medium score with two factors (revoke) and
\* for a medium score with one factor (keep).
C12_Witness ==
    /\ prioOp = "generateRecommendations"
    /\ \E i, j \in 1..Len(prioritized) :
          /\ prioritized[i].riskScore.level = "medium"
          /\ Len(prioritized[i].riskScore.factors) = 2
          /\ prioritized[i].shouldRevoke
          /\ prioritized[j].riskScore.level = "medium"
          /\ Len(prioritized[j].riskScore.factors) = 1
          /\ ~prioritized[j].shouldRevoke

----------------------------------------------------------------------------
(* Properties of the wallet-level scores *)

\* The individual scores the operation that ran blended, in its own unit, and
\* the overall score it returned as a fraction of that unit.
individualScores ==
    CASE walletOp = "calculateAggregateRisk" ->
           [i \in 1..Len(walletApprovals) |->
              RiskCalculator_calculateApprovalRisk(walletApprovals[i].calculator, now).score]
      [] walletOp = "getOverallRiskScore" ->
           [i \in 1..Len(walletApprovals) |->
              analyzeApproval(DefaultAnalysisConfig, walletApprovals[i].analysis, now).score]
      [] walletOp = "calculateWalletRiskScore" ->
           [i \in 1..Len(walletApprovals) |->
              calculateApprovalRisk(walletApprovals[i].token, now).score]

overallScore ==
    CASE walletOp = "calculateAggregateRisk" -> walletResult[1].score
      [] walletOp = "getOverallRiskScore" -> [num |-> walletResult[1], den |-> 1]
      [] walletOp = "calculateWalletRiskScore" ->
           [num |-> walletResult[1].overallScore, den |-> 1]

\* One approval has a positive score and every other one scores 0.
oneRiskyAmongSafe ==
    /\ Len(walletApprovals) >= 1
    /\ Cardinality({ i \in 1..Len(walletApprovals) : individualScores[i] > 0 }) = 1

\* C13: the overall score of a wallet holding one approval of score s and any
\* number of approvals of score 0 is at least 0.6 * s, in calculateAggregateRisk,
\* getOverallRiskScore and calculateWalletRiskScore.
C13_MaxOutweighsMean ==
    (walletOp # "none" /\ oneRiskyAmongSafe)
    => 10 * overallScore.num >= 6 * MaxOf(individualScores) * overallScore.den

\* C14: the three score-to-level mappings give every score in 0..100 the same level.
C14_OneThresholdTable ==
    labelled # None =>
        /\ labelled[1].getRiskLevel = labelled[1].determineRiskLevel
        /\ labelled[1].getRiskLevel = labelled[1].calculateRiskLevel

----------------------------------------------------------------------------
(* Properties of the returned scores *)

\* The returned score in hundredths of a point, and the level the function's
\* own score-to-level mapping gives a score in hundredths.
returnedHundredths ==
    IF call[1].fn = "RiskCalculator.calculateApprovalRisk"
    THEN call[1].ret.score
    ELSE 100 * scoreOf(call[1].fn, call[1].ret)

levelOfReturned ==
    CASE call[1].fn = "RiskScorer.scoreApproval" -> calculateRiskLevel(call[1].ret.overall)
      [] call[1].fn = "RiskCalculator.calculateApprovalRisk" -> scoreToLevel(call[1].ret.score)
      [] call[1].fn = "RiskAnalysisService.analyzeApproval" ->
            RiskAnalysisService_calculateRiskLevel(call[1].ret.score)

\* C15: the score returned by RiskScorer.scoreApproval, by
\* RiskCalculator.calculateApprovalRisk and by RiskAnalysisService.analyzeApproval
\* is an integer between 0 and 100, and the returned level is the level of
\* that returned score.
C15_ScoreIsClampedInteger ==
    ScoredBy({"RiskScorer.scoreApproval", "RiskCalculator.calculateApprovalRisk",
              "RiskAnalysisService.analyzeApproval"})
    => /\ returnedHundredths % 100 = 0
       /\ returnedHundredths >= 0
       /\ returnedHundredths <= 100 * 100
       /\ call[1].ret.level = levelOfReturned

\* C16: the factors RiskScorer.scoreApproval returns are never empty: a zero
\* allowance gives score 0, level low and the single factor zero_approval, and
\* a non-zero allowance gives at least one factor.
C16_FactorsNeverEmpty ==
    ScoredBy({"RiskScorer.scoreApproval"})
    => /\ call[1].args.value = 0
            => /\ call[1].ret.overall = 0
               /\ call[1].ret.level = "low"
               /\ Len(call[1].ret.factors) = 1
               /\ call[1].ret.factors[1].name = "zero_approval"
       /\ call[1].args.value # 0 => Len(call[1].ret.factors) >= 1

----------------------------------------------------------------------------
(* Properties of the event normalizers *)

lacksRequiredField(log) ==
    \/ Len(log.topics) < 3
    \/ log.blockNumber = None
    \/ log.data = None

\* C17: a raw log record that lacks the owner topic, the spender topic, the
\* block number or a parseable value is skipped by parseApprovalLog, by
\* parseApprovalLogs and by processLogs: none of them emits an event for it.
C17_IncompleteRecordSkipped ==
    (rawLog # None /\ lacksRequiredField(rawLog[1]))
    => /\ normalized[1].parseApprovalLog = None
       /\ normalized[1].parseApprovalLogs = <<>>
       /\ normalized[1].processLogs = <<>>

----------------------------------------------------------------------------
(* Properties of processBatch *)

\* Indices (from 0) of the items the processor resolves on, and rejects on.
succeeding == SelectSeq([i \in 1..Len(batchInput.items) |-> i - 1],
                        LAMBDA index : index \notin batchInput.failing)

rejecting == SelectSeq([i \in 1..Len(batchInput.items) |-> i - 1],
                       LAMBDA index : index \in batchInput.failing)

\* C18: processBatch processes every item exactly once in input order whatever
\* fails: totalProcessed = items.length = successCount + failureCount, results
\* are the outputs of the successful items in input order, every failure
\* carries the index of its item in the input, and onProgress is called once
\* per item, the last time with (items.length, items.length).
C18_BatchSurvivesFailures ==
    batchRun # None =>
        LET items == batchInput.items
            did == batchRun[1].did
            ret == did.ret
        IN /\ did.calls = [i \in 1..Len(items) |-> <<items[i], i - 1>>]
           /\ ret.totalProcessed = Len(items)
           /\ ret.totalProcessed = ret.successCount + ret.failureCount
           /\ ret.results = [k \in 1..Len(succeeding) |->
                               <<"done", items[succeeding[k] + 1], succeeding[k]>>]
           /\ Len(ret.errors) = Len(rejecting)
           /\ \A k \in 1..Len(rejecting) :
                 /\ ret.errors[k].index = rejecting[k]
                 /\ ret.errors[k].item = items[rejecting[k] + 1]
           /\ did.progress = [i \in 1..Len(items) |-> <<i, Len(items)>>]

\* A call over more than one batch, the last one not full, in which the
\* processor rejected on an item of the second batch and resolved on others.
C18_Witness ==
    /\ batchRun # None
    /\ Len(batchRun[1].did.batchCompletes) >= 2
    /\ Len(batchInput.items) % batchRun[1].batchSize # 0
    /\ batchRun[1].did.ret.successCount >= 1
    /\ \E k \in 1..Len(batchRun[1].did.ret.errors) :
          batchRun[1].did.ret.errors[k].index >= batchRun[1].batchSize

----------------------------------------------------------------------------
(* Properties of retryWithBackoff *)

invocations == SelectSeq(retry.events, LAMBDA e : e.kind = "fn")

\* C19: retryWithBackoff invokes fn at most maxRetries + 1 times, returns the
\* value of the first invocation that succeeds without invoking fn again,
\* rejects with the error of the last invocation when all maxRetries + 1
\* invocations failed, and waits between two attempts but never after the
\* last one.
C19_RetryBounded ==
    retry.pc # "idle" =>
        LET events == retry.events
            calls == invocations
        IN /\ Len(calls) <= retry.maxRetries + 1
           /\ \A k \in 1..(Len(calls) - 1) : ~calls[k].ok
           /\ retry.pc = "resolved" =>
                 /\ calls[Len(calls)].ok
                 /\ retry.value = Some(calls[Len(calls)].payload[1])
                 /\ events[Len(events)].kind = "fn"
           /\ retry.pc = "rejected" =>
                 /\ Len(calls) = retry.maxRetries + 1
                 /\ ~calls[Len(calls)].ok
                 /\ retry.lastError # None
                 /\ retry.lastError[1].message = calls[Len(calls)].payload[1]
                 /\ events[Len(events)].kind = "fn"
           /\ retry.pc \in {"calling", "resolved", "rejected"} =>
                 \A i \in 1..Len(events) :
                    events[i].kind = (IF i % 2 = 1 THEN "fn" ELSE "delay")
           /\ \A i \in 1..Len(events) :
                 events[i].kind = "delay" =>
                    /\ i > 1 /\ events[i - 1].kind = "fn" /\ ~events[i - 1].ok
                    /\ events[i].payload[1] = retry.baseDelayMs * MathPow2((i \div 2) - 1)

\* A call with maxRetries >= 1 was rejected after every invocation failed, and
\* the last two invocations threw different errors.
C19_Witness ==
    /\ retry.pc = "rejected"
    /\ retry.maxRetries >= 1
    /\ Len(invocations) = retry.maxRetries + 1
    /\ invocations[Len(invocations)].payload # invocations[Len(invocations) - 1].payload

----------------------------------------------------------------------------
(* Properties of the approval cache *)

scanCalls == { j \in 1..Len(cacheCalls) : cacheCalls[j].kind = "scanApprovals" }
clearCalls == { j \in 1..Len(cacheCalls) : cacheCalls[j].kind = "clearApprovalCache" }

sameWallet(a, b) == toLowerCase(a.walletAddress) = toLowerCase(b.walletAddress)

\* Scan i fetched with useCache = true and completed before call j began, for
\* the wallet of j, at most the TTL earlier and with no clearApprovalCache
\* between its completion and call j.
storedBefore(i, j) ==
    LET stored == cacheCalls[i]
        later == cacheCalls[j]
    IN /\ stored.useCache
       /\ stored.fetched
       /\ stored.pc = "resolved"
       /\ stored.settled[1] < later.started
       /\ sameWallet(stored, later)
       /\ later.startedAt - stored.settledAt[1] <= CACHE_TTL_MS
       /\ \A c \in clearCalls :
             ~(stored.settled[1] < cacheCalls[c].started /\ cacheCalls[c].started < later.started)

\* A useCache = true call after a completed useCache = true scan of the same
\* wallet returns a stored result and does not fetch.
CachedScanReused ==
    \A j \in scanCalls :
       (cacheCalls[j].useCache /\ \E i \in scanCalls : storedBefore(i, j))
          => /\ ~cacheCalls[j].fetched
             /\ cacheCalls[j].pc = "resolved"
             /\ \E i \in scanCalls :
                   /\ cacheCalls[i].wroteCache
                   /\ sameWallet(cacheCalls[i], cacheCalls[j])
                   /\ cacheCalls[i].ret = cacheCalls[j].ret

\* A useCache = false call fetches and neither reads nor writes the cache.
UncachedScanFetches ==
    \A j \in scanCalls :
       ~cacheCalls[j].useCache
          => /\ cacheCalls[j].fetched
             /\ ~cacheCalls[j].readCache
             /\ ~cacheCalls[j].wroteCache

\* The first useCache = true call after a clearApprovalCache fetches.
FirstScanAfterClearFetches ==
    \A c \in clearCalls : \A j \in scanCalls :
       ( /\ c < j
         /\ cacheCalls[j].useCache
         /\ \A k \in scanCalls : (c < k /\ k < j) => ~cacheCalls[k].useCache )
          => cacheCalls[j].fetched

\* C20: over any sequence of scanApprovals and clearApprovalCache calls, a
\* useCache = true call that follows a completed useCache = true scan of the
\* same wallet within the TTL and with no clear in between returns the stored
\* result without fetching; a useCache = false call always fetches and neither
\* reads nor writes the cache; the first useCache = true call after
\* clearApprovalCache fetches again.
C20_CacheContract ==
    /\ CachedScanReused
    /\ UncachedScanFetches
    /\ FirstScanAfterClearFetches

phasesOf(scan) == [k \in 1..Len(scan.progress) |-> scan.progress[k].phase]

phaseRank(phase) ==
    CASE phase = "scanning" -> 1
      [] phase = "processing" -> 2
      [] phase = "complete" -> 3

completeReports(scan) == { k \in 1..Len(scan.progress) : scan.progress[k].phase = "complete" }

\* C21: during a scanApprovals call that misses the cache onProgress receives
\* scanning, then one or more processing reports, then complete; complete is
\* reported at most once and nothing follows it; a cache hit reports a single
\* complete; a call whose fetch failed never reports complete.
C21_ProgressPhases ==
    \A j \in scanCalls :
       LET scan == cacheCalls[j]
           phases == phasesOf(scan)
           n == Len(phases)
       IN /\ \A k \in 1..n : \A l \in (k + 1)..n : phaseRank(phases[k]) <= phaseRank(phases[l])
          /\ Cardinality(completeReports(scan)) <= 1
          /\ completeReports(scan) \subseteq {n}
          /\ (scan.fetched /\ scan.pc = "resolved")
                => /\ n >= 3
                   /\ phases[1] = "scanning"
                   /\ \A k \in 2..(n - 1) : phases[k] = "processing"
                   /\ phases[n] = "complete"
          /\ (~scan.fetched) => phases = <<"complete">>
          /\ (scan.pc = "rejected") => completeReports(scan) = {}
          /\ (scan.pc = "fetching") => completeReports(scan) = {}

\* A miss that reported a batch, a cache hit and a failed fetch have all happened.
C21_Witness ==
    /\ \E j \in scanCalls : /\ cacheCalls[j].fetched
                            /\ cacheCalls[j].pc = "resolved"
                            /\ Len(cacheCalls[j].progress) >= 4
    /\ \E j \in scanCalls : ~cacheCalls[j].fetched
    /\ \E j \in scanCalls : cacheCalls[j].pc = "rejected"

----------------------------------------------------------------------------
(* Properties of the token metadata lookup *)

inputAddresses == { tokenInput[i].address : i \in 1..Len(tokenInput) }

\* The reads the chain answered for an address that was fetched in the call.
readsOf(address) ==
    tokenInput[CHOOSE i \in 1..Len(tokenInput) : tokenInput[i].address = address].reads

----------------------------------------------------------------------------
(* Properties of ApprovalCache *)

lastGet == storeOp # None /\ storeOp[1].fn = "get"

\* C23: get(wallet, chainId) returns null or exactly the approvals and block
\* number of the most recent set for the key (lowercased wallet, chainId),
\* labelled with that wallet and chain id; it never returns an entry whose
\* expiry time is at or before the current time; spellings of one wallet that
\* differ in letter case address the same entry.
C23_GetSameOrNull ==
    lastGet =>
       LET did == storeOp[1]
           key == <<toLowerCase(did.walletAddress), did.chainId>>
           stored == MapGet(did.before, key)
       IN /\ did.ret # None =>
                /\ key \in DOMAIN lastSet
                /\ did.ret[1].approvals = lastSet[key].approvals
                /\ did.ret[1].blockNumber = lastSet[key].blockNumber
                /\ did.ret[1].walletAddress = toLowerCase(did.walletAddress)
                /\ did.ret[1].chainId = did.chainId
                /\ stored # None
                /\ stored[1].expiresAt > did.at
          /\ \A i \in 1..Len(did.before) :
                (did.before[i].key = key /\ did.before[i].val.expiresAt > did.at)
                   => did.ret = Some(did.before[i].val.data)

\* A get under another spelling of the wallet has returned what was stored,
\* while an entry of the same wallet on another chain was in the cache.
C23_Witness ==
    /\ lastGet
    /\ storeOp[1].ret # None
    /\ storeOp[1].walletAddress = "0xAA"
    /\ \E i \in 1..Len(store) : /\ store[i].key[1] = "0xaa"
                                /\ store[i].key[2] # storeOp[1].chainId
    /\ storeNow > 0

lastSetOp == storeOp # None /\ storeOp[1].fn = "set"

\* The entries a set removed: keys of the cache before the set that are gone
\* after it, other than through being overwritten.
evictedBy(did) ==
    { i \in 1..Len(did.before) : ~MapHas(store, did.before[i].key) }

\* C29: the cache never holds more than options.maxSize entries; right after
\* a set the entry just written is present with the time of the set, and
\* every entry the set evicted was written no later than every entry it kept.
C29_SizeBound ==
    /\ storeOptions # None => Len(store) <= storeOptions[1].maxSize
    /\ lastSetOp =>
          LET did == storeOp[1]
              key == <<toLowerCase(did.walletAddress), did.chainId>>
          IN /\ MapHas(store, key)
             /\ MapGet(store, key)[1].timestamp = did.at
             /\ \A i \in evictedBy(did) : \A j \in 1..Len(store) :
                   did.before[i].val.timestamp <= store[j].val.timestamp

\* A set into a full cache has evicted an older entry while a younger one
\* and the entry just written stay.
C29_Witness ==
    /\ lastSetOp
    /\ evictedBy(storeOp[1]) # {}
    /\ Len(store) = storeOptions[1].maxSize
    /\ Len(store) >= 2
    /\ \E i \in evictedBy(storeOp[1]) : \E j \in 1..Len(store) :
          storeOp[1].before[i].val.timestamp < store[j].val.timestamp
             /\ store[j].val.timestamp < storeOp[1].at

-----------------------------------------------------------------------------
(* Properties of getAggregateRisk *)

levelRank(level) ==
    CASE level = "low" -> 0
      [] level = "medium" -> 1
      [] level = "high" -> 2
      [] level = "critical" -> 3

\* C24: getAggregateRisk returns low for an empty list, and for a non-empty
\* list the highest level present among the given scores: a level some score
\* of the list has, and not below the level of any of them.
C24_AggregateIsHighestLevel ==
    aggregate # None =>
       /\ givenScores = <<>> => aggregate[1] = "low"
       /\ givenScores # <<>> =>
             /\ \E i \in 1..Len(givenScores) : givenScores[i].level = aggregate[1]
             /\ \A i \in 1..Len(givenScores) :
                   levelRank(aggregate[1]) >= levelRank(givenScores[i].level)

-----------------------------------------------------------------------------
(* Properties of scoreMultiple with generateRecommendations *)

\* C25: every approval scored by scoreMultiple receives a recommendation when
\* the returned map is passed to generateRecommendations, whatever the letter
\* casing of its token and spender addresses.
C25_EveryScoredApprovalRecommended ==
    recommended # None =>
       /\ Len(recommended[1]) = Len(scoredApprovals)
       /\ \A i \in 1..Len(scoredApprovals) :
             /\ MapHas(scoreMap[1], scoreKey(scoredApprovals[i]))
             /\ \E j \in 1..Len(recommended[1]) : recommended[1][j] = scoredApprovals[i]

-----------------------------------------------------------------------------
(* Properties of the approval history *)

\* history.timelines.filter((t) => t.currentAmount > 0n) of analyzeTimelines.
activeTimelines(history) == SelectSeq(history.timelines, LAMBDA t : t.currentAmount > 0)

\* The delivered logs of the pair of a timeline, and the latest of them: the
\* one in the highest block, the last delivered of that block.
logsOfTimeline(t) ==
    { j \in 1..Len(logs) : logs[j].address = t.tokenAddress /\ logArgs(logs[j]).spender = t.spender }
latestLogOfTimeline(t) ==
    CHOOSE j \in logsOfTimeline(t) :
        \A i \in logsOfTimeline(t) :
            \/ logs[i].blockNumber[1] < logs[j].blockNumber[1]
            \/ logs[i].blockNumber[1] = logs[j].blockNumber[1] /\ i <= j

\* C26: in the history built by getApprovalHistory every timeline's
\* currentAmount is the amount of the latest event of its pair in the fetched
\* logs, for every value of includeRevocations; so no timeline whose pair was
\* last revoked is among the active timelines of analyzeTimelines.
C26_CurrentAmountIsLatest ==
    op = "getApprovalHistory" =>
       /\ \A i \in 1..Len(result.timelines) :
             LET t == result.timelines[i]
             IN t.currentAmount = logArgs(logs[latestLogOfTimeline(t)]).value
       /\ \A i \in 1..Len(activeTimelines(result)) :
             LET t == activeTimelines(result)[i]
             IN logArgs(logs[latestLogOfTimeline(t)]).value > 0

-----------------------------------------------------------------------------
(* Properties of the risk signals of RiskScorer.scoreApproval *)

usedRecently(lastUsed, dateNow) == lastUsed # None /\ dateNow - lastUsed[1] <= DORMANT_DAYS_THRESHOLD

\* The approvals that differ from approval in one attribute only and lack a
\* risk signal approval has: a verified spender instead of an unverified one,
\* a recent use instead of none or a dormant one, an amount below the
\* high-value threshold instead of one at or above it (and not unlimited).
withOneSignalLess(approval, dateNow) ==
    { [approval EXCEPT !.spenderVerified = TRUE] : x \in { y \in {1} : ~approval.spenderVerified } }
    \cup { [approval EXCEPT !.lastUsed = recent] :
              recent \in { r \in LastUsedChoices :
                              /\ usedRecently(r, dateNow)
                              /\ ~usedRecently(approval.lastUsed, dateNow) } }
    \cup { [approval EXCEPT !.value = 100] :
              x \in { y \in {1} : /\ approval.value >= HIGH_VALUE_THRESHOLD
                                  /\ approval.value < UNLIMITED_APPROVAL_THRESHOLD } }

\* C27: an additional risk signal never lowers the result of scoreApproval:
\* the approval with the signal scores at least as much as the same approval
\* without it, and its level is not lower.
C27_SignalNeverLowers ==
    ScoredBy({"RiskScorer.scoreApproval"}) =>
       \A first \in withOneSignalLess(call[1].args, call[1].at) :
          LET without == scoreApproval(first, call[1].at)
          IN /\ call[1].ret.overall >= without.overall
             /\ levelRank(call[1].ret.level) >= levelRank(without.level)

-----------------------------------------------------------------------------
(* Properties of the block range of a cached scan *)

\* The scans answered from the cache.
cachedScans == { j \in scanCalls : cacheCalls[j].pc = "resolved" /\ ~cacheCalls[j].fetched }

\* The scans that fetched for the wallet of scan j and cached their result
\* before scan j began.
wroteBefore(j) ==
    { i \in scanCalls : /\ cacheCalls[i].pc = "resolved"
                        /\ cacheCalls[i].fetched
                        /\ cacheCalls[i].wroteCache
                        /\ sameWallet(cacheCalls[i], cacheCalls[j])
                        /\ cacheCalls[i].settled[1] < cacheCalls[j].started }

\* The block range scan j asks for at the head of the chain when it is called.
askedRange(j) ==
    LET head == chainHead(cacheCalls[j].startedAt)
    IN <<startBlock(cacheCalls[j].fromBlock, head), endBlock(cacheCalls[j].toBlock, head)>>

\* C28: a scan answered from the cache returns the approvals of a scan over
\* the same query: no earlier scan of the wallet whose block range differs
\* from the one asked for (another toBlock, or an unset bound at another head
\* of the chain) is the one whose approvals come back.
C28_CachedOnlySameRange ==
    \A j \in cachedScans : \A i \in wroteBefore(j) :
        cacheCalls[i].range # Some(askedRange(j))
            => \/ cacheCalls[j].ret # cacheCalls[i].ret
               \/ \E k \in wroteBefore(j) :
                     /\ cacheCalls[k].range = Some(askedRange(j))
                     /\ cacheCalls[k].ret = cacheCalls[j].ret

-----------------------------------------------------------------------------
(* Properties of the block ranges of fetchApprovalEvents *)

rangeSize(r) == (r.toBlock - r.fromBlock) + 1

\* The ranges queried so far are consecutive from fromBlock, none empty, none
\* over BLOCKS_PER_QUERY blocks, none beyond toBlock.
rangesAreConsecutive ==
    /\ \A k \in 1..Len(rangesQueried) :
          /\ rangeSize(rangesQueried[k]) >= 1
          /\ rangeSize(rangesQueried[k]) <= BLOCKS_PER_QUERY
          /\ rangesQueried[k].toBlock <= rangeQuery[1].toBlock
          /\ rangesQueried[k].fromBlock =
                IF k = 1 THEN rangeQuery[1].fromBlock ELSE rangesQueried[k - 1].toBlock + 1

\* Once the loop has ended the ranges cover [fromBlock, toBlock], and there
\* is none when fromBlock > toBlock.
rangesCoverQuery ==
    rangePc = "resolved" =>
       IF rangeQuery[1].fromBlock > rangeQuery[1].toBlock
       THEN rangesQueried = <<>>
       ELSE /\ rangesQueried # <<>>
            /\ rangesQueried[Len(rangesQueried)].toBlock = rangeQuery[1].toBlock

\* C30: the getLogs calls of fetchApprovalEvents cover consecutive ranges of
\* at most 10000 blocks that partition [fromBlock, toBlock], with no overlap
\* and no gap, the first starting at fromBlock and the last ending at toBlock;
\* none is made when fromBlock > toBlock; and the loop always comes to an end.
C30_RangesPartitionQuery ==
    /\ [](rangesAreConsecutive /\ rangesCoverQuery)
    /\ (rangePc = "loop") ~> (rangePc \in {"resolved", "rejected"})

\* A query of more than two full ranges and a shorter last one has resolved.
C30_Witness ==
    /\ rangePc = "resolved"
    /\ Len(rangesQueried) >= 3
    /\ rangeSize(rangesQueried[Len(rangesQueried)]) < BLOCKS_PER_QUERY
    /\ rangeSize(rangesQueried[1]) = BLOCKS_PER_QUERY

====
